---- MODULE Spec2Model ----
(***************************************************************************)
(* A model of the binary-heap engine of collections-js                     *)
(* (src/src/collections/heap.class.ts): the invariant primitives           *)
(* _siftDown, _siftUp, _heapify and _replace, the order-statistics         *)
(* functions _nsmallest and _nlargest, the Heap instance wrapper, the      *)
(* static heapq facade over caller-owned arrays, and Counter.mostCommon    *)
(* (src/src/collections/counter.class.ts), which calls into the facade;    *)
(* and of the other collections: Counter's counting methods, OrderedDict   *)
(* (the class in src/src/index.ts) over its linked entries, and Deque      *)
(* (src/src/collections/deque.class.ts) over its ring buffer.              *)
(*                                                                         *)
(* JavaScript arrays are 0-indexed; the model keeps the code's index       *)
(* arithmetic and reads/writes arrays through At and Put.                  *)
(***************************************************************************)
EXTENDS Integers, Sequences, FiniteSets, Bags, TLC

\* ---------------------------------------------------------------- bounds
MaxKey == 3      \* elements carry a key in 1..MaxKey, the part the comparator reads
MaxLen == 4      \* the heap holds at most MaxLen elements
MaxItems == 1    \* heapify(items) appends at most MaxItems items
MaxCounterKeys == 2  \* a Counter counts keys in 1..MaxCounterKeys
MaxTotal == 4        \* a Counter's _total and its counts stay within MaxTotal
MaxIncrement == 2    \* add(key, increment) takes an increment in -1..MaxIncrement, a Map
                     \* holds values in 0..MaxIncrement and no count goes below -MaxIncrement
MaxDictKeys == 3     \* an OrderedDict holds keys in 1..MaxDictKeys
MaxDictValue == 2    \* and values in 1..MaxDictValue
MaxOperations == 5   \* a run makes at most MaxOperations calls on a Deque
MaxCapacityBits == 6 \* Deque.MAX_CAPACITY is 2^MaxCapacityBits slots; the code has 1 << 30,
                     \* scaled down here so that a buffer can be filled to the limit
MaxLimitOperations == 3  \* a run on a Deque at the limit makes at most MaxLimitOperations calls
MaxLoopKey == 2      \* the loops taken one iteration at a time run on arrays of at most
MaxLoopLen == 4      \* MaxLoopLen elements with keys in 1..MaxLoopKey
MaxDefaultDictKeys == 2  \* a DefaultDict holds keys in 1..MaxDefaultDictKeys

\* Heap elements, as in the tests' `new Heap<number[]>([[1, 2], [2, 3], ...], (a, b) => a[0] - b[0])`:
\* pairs <<key, tag>> of which the comparator reads the key only. Key 2 comes with two tags,
\* so that two different elements compare equal.
Elem == ((1..MaxKey) \X {1}) \cup {<<2, 2>>}

\* All arrays of at most n elements.
SeqsUpTo(n) == UNION {[1..k -> Elem] : k \in 0..n}

\* ---------------------------------------------------------------- arrays
At(arr, i) == arr[i + 1]

\* arr[i] = v; writing at index arr.length grows the array by one.
Put(arr, i, v) == IF i = Len(arr) THEN Append(arr, v) ELSE [arr EXCEPT ![i + 1] = v]

\* ---------------------------------------------------------------- comparators
\* ord = 1 : (a, b) => a[0] - b[0];   ord = -1 : the inverted (b, a) comparator.
comparator(ord, a, b) == ord * (a[1] - b[1])

\* comparator(a[0], b[0]) || a[1] - b[1], over [value, index] pairs.
heapComparator(ord, a, b) ==
    LET v == comparator(ord, a[1], b[1])
    IN  IF v # 0 THEN v ELSE a[2] - b[2]

\* A comparator passed as an argument is a record naming which closure it is.
ElemCmp(ord) == [kind |-> "comparator", ord |-> ord]

\* A descending comparator that forgets the negation.
NegElemCmp_notNegated(ord) == ElemCmp(ord)

NegElemCmp(ord) == [kind |-> "negComparator", ord |-> ord]
PairCmp(ord) == [kind |-> "heapComparator", ord |-> ord]
NegPairCmp(ord) == [kind |-> "negHeapComparator", ord |-> ord]

Compare(c, a, b) ==
    CASE c.kind = "comparator" -> comparator(c.ord, a, b)
      [] c.kind = "negComparator" -> 0 - comparator(c.ord, a, b)
      [] c.kind = "heapComparator" -> heapComparator(c.ord, a, b)
      [] c.kind = "negHeapComparator" -> 0 - heapComparator(c.ord, a, b)

\* ---------------------------------------------------------------- primitives
\* A sift-down that tests each child against the moved item only, never against the other child.
RECURSIVE SiftDownLoop_anyChild(_, _, _, _, _)
SiftDownLoop_anyChild(heap, index, length, item, c) ==
    IF ~(index < length) THEN heap
    ELSE LET left == 2 * index + 1
             right == left + 1
             smallestIndex ==
                 IF left < length /\ Compare(c, At(heap, left), At(heap, index)) < 0 THEN left
                 ELSE IF right < length /\ Compare(c, At(heap, right), At(heap, index)) < 0 THEN right
                 ELSE index
         IN  IF smallestIndex = index THEN heap
             ELSE SiftDownLoop_anyChild(
                      Put(Put(heap, index, At(heap, smallestIndex)), smallestIndex, item),
                      smallestIndex, length, item, c)

\* A sift-down that also moves a child up when it compares equal (<= 0 instead of < 0).
RECURSIVE SiftDownLoop_swapOnTie(_, _, _, _, _)
SiftDownLoop_swapOnTie(heap, index, length, item, c) ==
    IF ~(index < length) THEN heap
    ELSE LET left == 2 * index + 1
             right == left + 1
             s1 == IF left < length /\ Compare(c, At(heap, left), At(heap, index)) <= 0
                   THEN left ELSE index
             smallestIndex == IF right < length /\ Compare(c, At(heap, right), At(heap, s1)) <= 0
                              THEN right ELSE s1
         IN  IF smallestIndex = index THEN heap
             ELSE SiftDownLoop_swapOnTie(
                      Put(Put(heap, index, At(heap, smallestIndex)), smallestIndex, item),
                      smallestIndex, length, item, c)

RECURSIVE SiftDownLoop(_, _, _, _, _)
SiftDownLoop(heap, index, length, item, c) ==
    IF ~(index < length) THEN heap
    ELSE LET left == 2 * index + 1
             right == left + 1
             s1 == IF left < length /\ Compare(c, At(heap, left), At(heap, index)) < 0
                   THEN left ELSE index
             smallestIndex == IF right < length /\ Compare(c, At(heap, right), At(heap, s1)) < 0
                              THEN right ELSE s1
         IN  IF smallestIndex = index THEN heap
             ELSE SiftDownLoop(Put(Put(heap, index, At(heap, smallestIndex)), smallestIndex, item),
                               smallestIndex, length, item, c)

_siftDown(heap, index, length, c) ==
    IF ~(index < length) THEN heap
    ELSE SiftDownLoop(heap, index, length, At(heap, index), c)

\* A sift-up that also passes an ancestor that compares equal (> 0 instead of >= 0).
RECURSIVE SiftUpLoop_swapOnTie(_, _, _, _)
SiftUpLoop_swapOnTie(heap, index, item, c) ==
    IF ~(index > 0) THEN Put(heap, index, item)
    ELSE LET parentIndex == (index - 1) \div 2
         IN  IF Compare(c, item, At(heap, parentIndex)) > 0 THEN Put(heap, index, item)
             ELSE SiftUpLoop_swapOnTie(Put(heap, index, At(heap, parentIndex)), parentIndex,
                                       item, c)

RECURSIVE SiftUpLoop(_, _, _, _)
SiftUpLoop(heap, index, item, c) ==
    IF ~(index > 0) THEN Put(heap, index, item)
    ELSE LET parentIndex == (index - 1) \div 2
         IN  IF Compare(c, item, At(heap, parentIndex)) >= 0 THEN Put(heap, index, item)
             ELSE SiftUpLoop(Put(heap, index, At(heap, parentIndex)), parentIndex, item, c)

_siftUp(heap, index, c) == SiftUpLoop(heap, index, At(heap, index), c)

RECURSIVE HeapifyLoop(_, _, _)
HeapifyLoop(items, i, c) ==
    IF ~(i >= 0) THEN items
    ELSE HeapifyLoop(_siftDown(items, i, Len(items), c), i - 1, c)

\* A heapify that starts one node too low and never sifts the last internal node.
_heapify_skipLastParent(items, c) == HeapifyLoop(items, (Len(items) \div 2) - 2, c)

_heapify(items, c) == HeapifyLoop(items, (Len(items) \div 2) - 1, c)

\* Results of the operations: the array afterwards and the returned value.
\* kind: "undefined", "item" (val holds it), "array" (val is it), "this", "void",
\* "TypeError" (a read of a property of undefined).
Undefined == [kind |-> "undefined", val |-> <<>>]
Item(x) == [kind |-> "item", val |-> <<x>>]
Array(a) == [kind |-> "array", val |-> a]
This == [kind |-> "this", val |-> <<>>]
Void == [kind |-> "void", val |-> <<>>]
TypeError == [kind |-> "TypeError", val |-> <<>>]

\* A replace that installs the item at the root and does not sift it down.
_replace_noSift(heap, item, c) ==
    [data |-> Put(heap, 0, item),
     ret |-> IF Len(heap) # 0 THEN Item(At(heap, 0)) ELSE Undefined]

_replace(heap, item, c) ==
    LET returnitem == IF Len(heap) # 0 THEN Item(At(heap, 0)) ELSE Undefined
        h1 == Put(heap, 0, item)
    IN  [data |-> _siftDown(h1, 0, Len(h1), c), ret |-> returnitem]

\* Array.prototype.sort(compareFn): a stable sort.
RECURSIVE InsertSorted(_, _, _)
InsertSorted(s, x, c) ==
    IF s = <<>> THEN <<x>>
    ELSE IF Compare(c, s[Len(s)], x) > 0
         THEN Append(InsertSorted(SubSeq(s, 1, Len(s) - 1), x, c), s[Len(s)])
         ELSE Append(s, x)

RECURSIVE SortBy(_, _)
SortBy(arr, c) ==
    IF arr = <<>> THEN <<>>
    ELSE InsertSorted(SortBy(SubSeq(arr, 1, Len(arr) - 1), c), arr[Len(arr)], c)

\* arr.slice(0, n) for n >= 0
Slice0(arr, n) == SubSeq(arr, 1, IF n < Len(arr) THEN n ELSE Len(arr))

\* ---------------------------------------------------------------- order statistics
\* An n === 1 scan that lets a later equal value take the place of the best so far.
RECURSIVE ScanOne_lastWins(_, _, _, _)
ScanOne_lastWins(best, rest, sign, ord) ==
    IF rest = <<>> THEN best
    ELSE IF sign * comparator(ord, Head(rest), best) <= 0
         THEN ScanOne_lastWins(Head(rest), Tail(rest), sign, ord)
         ELSE ScanOne_lastWins(best, Tail(rest), sign, ord)

\* The n === 1 scan: the first extremum seen is kept (sign = 1: minimum, -1: maximum).
RECURSIVE ScanOne(_, _, _, _)
ScanOne(best, rest, sign, ord) ==
    IF rest = <<>> THEN best
    ELSE IF sign * comparator(ord, Head(rest), best) < 0
         THEN ScanOne(Head(rest), Tail(rest), sign, ord)
         ELSE ScanOne(best, Tail(rest), sign, ord)

\* A seeding loop that runs once too often (i <= n instead of i < n).
SeedPairs_offByOne(n, iterable) ==
    [k \in 1..(IF n + 1 < Len(iterable) THEN n + 1 ELSE Len(iterable)) |-> <<iterable[k], k - 1>>]

\* The first min(n, |iterable|) values paired with their positions 0, 1, ...
SeedPairs(n, iterable) ==
    [k \in 1..(IF n < Len(iterable) THEN n ELSE Len(iterable)) |-> <<iterable[k], k - 1>>]

\* The `while (true)` scan of the remaining values; hc orders the working heap.
RECURSIVE ScanRest(_, _, _, _, _, _)
ScanRest(result, i, rest, sign, hc, ord) ==
    IF rest = <<>> THEN result
    ELSE LET value == Head(rest)
             top == At(result, 0)[1]
         IN  IF sign * comparator(ord, value, top) < 0
             THEN ScanRest(_replace(result, <<value, i>>, hc).data, i + 1, Tail(rest), sign, hc, ord)
             ELSE ScanRest(result, i, Tail(rest), sign, hc, ord)

\* result.map(([item]) => item)
MapFirst(result) == [k \in 1..Len(result) |-> result[k][1]]

\* lenKnown: whether len(iterable) is defined (an array, as the Heap passes, or not, a generator).
_nsmallest(n, iterable, lenKnown, ord) ==
    IF n <= 0 THEN Array(<<>>)
    ELSE IF lenKnown /\ n >= Len(iterable)
    THEN Array(Slice0(SortBy(iterable, ElemCmp(ord)), n))
    ELSE IF n = 1
    THEN (IF iterable = <<>> THEN Array(<<>>)
          ELSE Array(<<ScanOne(Head(iterable), Tail(iterable), 1, ord)>>))
    ELSE LET seeded == SeedPairs(n, iterable)
             i == Len(seeded)
             rest == SubSeq(iterable, i + 1, Len(iterable))
             heaped == _heapify(seeded, NegPairCmp(ord))
         IN  IF i = 0 THEN Array(<<>>)
             ELSE IF heaped = <<>> THEN TypeError
             ELSE Array(MapFirst(SortBy(ScanRest(heaped, i, rest, 1, NegPairCmp(ord), ord),
                                        PairCmp(ord))))

_nlargest(n, iterable, lenKnown, ord) ==
    IF n <= 0 THEN Array(<<>>)
    ELSE IF lenKnown /\ n >= Len(iterable)
    THEN Array(Slice0(SortBy(iterable, NegElemCmp(ord)), n))
    ELSE IF n = 1
    THEN (IF iterable = <<>> THEN Array(<<>>)
          ELSE Array(<<ScanOne(Head(iterable), Tail(iterable), -1, ord)>>))
    ELSE LET seeded == SeedPairs(n, iterable)
             i == Len(seeded)
             rest == SubSeq(iterable, i + 1, Len(iterable))
             heaped == _heapify(seeded, PairCmp(ord))
         IN  IF i = 0 THEN Array(<<>>)
             ELSE IF heaped = <<>> THEN TypeError
             ELSE Array(MapFirst(SortBy(ScanRest(heaped, i, rest, -1, PairCmp(ord), ord),
                                        NegPairCmp(ord))))

\* ---------------------------------------------------------------- class Heap
\* The methods as functions of the backing array _data (d) and the comparator (c).
push(d, c, item) == _siftUp(Append(d, item), Len(d), c)

\* A pop that moves the last element to the root and leaves it there.
pop_noSift(d, c) ==
    IF d = <<>> THEN [data |-> d, ret |-> Undefined]
    ELSE LET d1 == SubSeq(d, 1, Len(d) - 1)
         IN  [data |-> IF d1 # <<>> THEN Put(d1, 0, d[Len(d)]) ELSE d1, ret |-> Item(At(d, 0))]

pop(d, c) ==
    IF d = <<>> THEN [data |-> d, ret |-> Undefined]
    ELSE LET root == At(d, 0)
             last == d[Len(d)]
             d1 == SubSeq(d, 1, Len(d) - 1)
         IN  IF d1 # <<>>
             THEN [data |-> _siftDown(Put(d1, 0, last), 0, Len(d1), c), ret |-> Item(root)]
             ELSE [data |-> d1, ret |-> Item(root)]

\* A peek that ignores its index and always reads the root.
peek_rootOnly(d, index) == IF d = <<>> THEN Undefined ELSE Item(At(d, 0))

peek(d, index) ==
    IF index < 0 \/ index >= Len(d) THEN Undefined ELSE Item(At(d, index))

\* A replace that hands back the new item when there was no root.
replace_echo(d, c, item) ==
    [data |-> _replace(d, item, c).data, ret |-> IF d = <<>> THEN Item(item) ELSE Item(At(d, 0))]

replace(d, c, item) == _replace(d, item, c)

\* A pushPop without the comparison against the root: it always swaps the item in.
pushPop_alwaysSwap(d, c, item) ==
    IF d = <<>>
    THEN [data |-> d, ret |-> Item(item)]
    ELSE [data |-> _siftDown(Put(d, 0, item), 0, Len(d), c), ret |-> Item(At(d, 0))]

\* A pushPop whose early return also fires when the item compares equal to the root.
pushPop_lessEq(d, c, item) ==
    IF d = <<>> \/ Compare(c, item, At(d, 0)) <= 0
    THEN [data |-> d, ret |-> Item(item)]
    ELSE [data |-> _siftDown(Put(d, 0, item), 0, Len(d), c), ret |-> Item(At(d, 0))]

pushPop(d, c, item) ==
    IF d = <<>> \/ Compare(c, item, At(d, 0)) < 0
    THEN [data |-> d, ret |-> Item(item)]
    ELSE [data |-> _siftDown(Put(d, 0, item), 0, Len(d), c), ret |-> Item(At(d, 0))]

\* A heapify(items) that forgets to append the items.
heapify_dropsItems(d, c, items) == _heapify(d, c)

\* heapify(items?): an absent items and an empty items array both append nothing.
heapify(d, c, items) == _heapify(d \o items, c)

\* A sort that sorts _data itself instead of a copy of it.
sort_inPlace(d, c) == [data |-> SortBy(d, c), ret |-> Array(SortBy(d, c))]

\* [...this._data].sort(this._comparator): the copy is sorted, _data is left as it is.
sort(d, c) ==
    LET copy == d
    IN  [data |-> d, ret |-> Array(SortBy(copy, c))]

\* get size / get isEmpty
size(d) == Len(d)
isEmpty(d) == size(d) = 0

nsmallest(d, o, n) == _nsmallest(n, d, TRUE, o)

nlargest(d, o, n) == _nlargest(n, d, TRUE, o)

\* ---------------------------------------------------------------- heapq (static facade)
\* The key function passed to heapq.nsmallest / heapq.nlargest: the part of an element
\* that is compared, `(a) => a[0]` for the <<key, tag>> elements.
key(a) == a[1]

\* A facade nsmallest that sorts the caller's array itself when it takes the full-sort path.
heapq_nsmallest_sortsInput(n, iterable, lenKnown) ==
    [data |-> IF n > 0 /\ lenKnown /\ n >= Len(iterable)
              THEN SortBy(iterable, ElemCmp(1)) ELSE iterable,
     ret |-> _nsmallest(n, iterable, lenKnown, 1)]

\* heapq.nsmallest(n, iterable, key): the comparator (a, b) => key(a) - key(b) is
\* comparator(1, a, b). data is the iterable's content after the call: the full-sort
\* path sorts the copy Array.from(iterable), the other paths only read the iterator.
heapq_nsmallest(n, iterable, lenKnown) ==
    [data |-> iterable, ret |-> _nsmallest(n, iterable, lenKnown, 1)]

\* A facade nlargest whose comparator is (a, b) => key(b) - key(a).
heapq_nlargest_flipped(n, iterable, lenKnown) ==
    [data |-> iterable, ret |-> _nlargest(n, iterable, lenKnown, 0 - 1)]

\* heapq.nlargest(n, iterable, key)
heapq_nlargest(n, iterable, lenKnown) ==
    [data |-> iterable, ret |-> _nlargest(n, iterable, lenKnown, 1)]

\* The methods that take the array and default to defaultComparator, which on numbers has
\* the sign of a - b: the comparator ElemCmp(1) over the elements <<number, 1>>.
Numbers(ns) == [k \in DOMAIN ns |-> <<ns[k], 1>>]

heapq_heapify(arr) == _heapify(arr, ElemCmp(1))

heapq_heapPush(arr, item) == _siftUp(Append(arr, item), Len(arr), ElemCmp(1))

heapq_heapPop(arr) ==
    IF arr = <<>> THEN [data |-> arr, ret |-> Undefined]
    ELSE LET last == arr[Len(arr)]
             arr1 == SubSeq(arr, 1, Len(arr) - 1)
         IN  IF Len(arr1) > 0
             THEN [data |-> _siftDown(Put(arr1, 0, last), 0, Len(arr1), ElemCmp(1)),
                   ret |-> Item(At(arr1, 0))]
             ELSE [data |-> arr1, ret |-> Item(last)]

heapq_heapPushPop(arr, item) ==
    IF Len(arr) > 0 /\ Compare(ElemCmp(1), At(arr, 0), item) < 0
    THEN [data |-> _siftDown(Put(arr, 0, item), 0, Len(arr), ElemCmp(1)), ret |-> Item(At(arr, 0))]
    ELSE [data |-> arr, ret |-> Item(item)]

heapq_heapReplace(arr, item) == _replace(arr, item, ElemCmp(1))

\* ---------------------------------------------------------------- class OrderedDict
\* A DictEntry object is addressed by its key: _items maps a key to its entry, and next,
\* prev, _head and _tail hold the key of the entry they point to, or Null.
Null == 0
DictKeys == 1..MaxDictKeys
DictValues == 1..MaxDictValue

\* new DictEntry(key, value)
DictEntry(k, value) == [key |-> k, value |-> value, next |-> Null, prev |-> Null]

\* new OrderedDict()
EmptyDict == [_items |-> <<>>, _head |-> Null, _tail |-> Null]

\* Map.has, Map.set and Map.delete on _items.
ItemsHas(items, k) == k \in DOMAIN items
ItemsSet(items, k, entry) ==
    [j \in DOMAIN items \cup {k} |-> IF j = k THEN entry ELSE items[j]]
ItemsDelete(items, k) == [j \in DOMAIN items \ {k} |-> items[j]]

\* _insertEntryToEnd(entry), the entry being the one _items holds under key.
_insertEntryToEnd(d, k) ==
    LET items1 == [d._items EXCEPT ![k].next = Null, ![k].prev = d._tail]
    IN  IF d._tail # Null
        THEN [_items |-> [items1 EXCEPT ![d._tail].next = k], _head |-> d._head, _tail |-> k]
        ELSE [_items |-> items1, _head |-> k, _tail |-> k]

\* _insertEntryToHead(entry)
_insertEntryToHead(d, k) ==
    LET items1 == [d._items EXCEPT ![k].prev = Null, ![k].next = d._head]
    IN  IF d._head # Null
        THEN [_items |-> [items1 EXCEPT ![d._head].prev = k], _head |-> k, _tail |-> d._tail]
        ELSE [_items |-> items1, _head |-> k, _tail |-> k]

\* A _removeEntry that leaves the following entry's prev pointing at the removed entry.
_removeEntry_keepsPrev(d, k) ==
    LET entry == d._items[k]
        items1 == IF entry.prev # Null THEN [d._items EXCEPT ![entry.prev].next = entry.next]
                  ELSE d._items
        head1 == IF entry.prev # Null THEN d._head ELSE entry.next
        tail1 == IF entry.next # Null THEN d._tail ELSE entry.prev
    IN  [_items |-> [items1 EXCEPT ![k].prev = Null, ![k].next = Null],
         _head |-> head1, _tail |-> tail1]

\* _removeEntry(entry): the neighbours are linked to each other, _head and _tail move off
\* the entry, and the entry's own links are cleared.
_removeEntry(d, k) ==
    LET entry == d._items[k]
        items1 == IF entry.prev # Null THEN [d._items EXCEPT ![entry.prev].next = entry.next]
                  ELSE d._items
        head1 == IF entry.prev # Null THEN d._head ELSE entry.next
        items2 == IF entry.next # Null THEN [items1 EXCEPT ![entry.next].prev = entry.prev]
                  ELSE items1
        tail1 == IF entry.next # Null THEN d._tail ELSE entry.prev
    IN  [_items |-> [items2 EXCEPT ![k].prev = Null, ![k].next = Null],
         _head |-> head1, _tail |-> tail1]

\* A setItem that also moves an existing key to the end.
OrderedDict_setItem_movesToEnd(d, k, value) ==
    IF ItemsHas(d._items, k)
    THEN _insertEntryToEnd(_removeEntry([d EXCEPT !._items[k].value = value], k), k)
    ELSE _insertEntryToEnd([d EXCEPT !._items = ItemsSet(d._items, k, DictEntry(k, value))],
                           k)

\* setItem(key, value): an existing entry gets the value, a new entry goes to the end.
OrderedDict_setItem(d, k, value) ==
    IF ItemsHas(d._items, k)
    THEN [d EXCEPT !._items[k].value = value]
    ELSE _insertEntryToEnd([d EXCEPT !._items = ItemsSet(d._items, k, DictEntry(k, value))],
                           k)

\* deleteItem(key) returns entry.value, or undefined.
OrderedDict_deleteItem(d, k) ==
    IF ItemsHas(d._items, k)
    THEN LET d1 == _removeEntry(d, k)
         IN  [dict |-> [d1 EXCEPT !._items = ItemsDelete(d1._items, k)],
              ret |-> Item(d._items[k].value),
              detached |-> {d1._items[k]}]
    ELSE [dict |-> d, ret |-> Undefined, detached |-> {}]

\* A moveToEnd that takes every call as moveToEnd(key, true).
OrderedDict_moveToEnd_ignoresLast(d, k, last) ==
    IF ~ItemsHas(d._items, k) THEN d
    ELSE IF k = d._tail THEN d
    ELSE _insertEntryToEnd(_removeEntry(d, k), k)

\* moveToEnd(key, last); it returns this.
OrderedDict_moveToEnd(d, k, last) ==
    IF ~ItemsHas(d._items, k) THEN d
    ELSE IF last
    THEN IF k = d._tail THEN d ELSE _insertEntryToEnd(_removeEntry(d, k), k)
    ELSE IF k = d._head THEN d ELSE _insertEntryToHead(_removeEntry(d, k), k)

\* The array [key, value] popItem returns.
Pair(k, value) == [kind |-> "pair", val |-> <<k, value>>]

\* popItem(last) returns [entry.key, entry.value], or undefined.
OrderedDict_popItem(d, last) ==
    LET k == IF last THEN d._tail ELSE d._head
    IN  IF k # Null
        THEN LET d1 == _removeEntry(d, k)
             IN  [dict |-> [d1 EXCEPT !._items = ItemsDelete(d1._items, k)],
                  ret |-> Pair(k, d._items[k].value),
                  detached |-> {d1._items[k]}]
        ELSE [dict |-> d, ret |-> Undefined, detached |-> {}]

\* update(iterable), the iterable being a sequence of [key, value] pairs.
RECURSIVE OrderedDict_update(_, _)
OrderedDict_update(d, iterable) ==
    IF iterable = <<>> THEN d
    ELSE OrderedDict_update(OrderedDict_setItem(d, Head(iterable)[1], Head(iterable)[2]),
                            Tail(iterable))

\* clear() empties the Map and drops _head and _tail; it writes to no entry.
OrderedDict_clear(d) == [_items |-> <<>>, _head |-> Null, _tail |-> Null]

\* The entries clear() lets go of, as they are.
OrderedDict_cleared(d) == {d._items[k] : k \in DOMAIN d._items}

OrderedDict_size(d) == Cardinality(DOMAIN d._items)

\* toArray(), and every iterator: follow next from _head.
RECURSIVE WalkNext(_, _)
WalkNext(items, current) ==
    IF current = Null THEN <<>>
    ELSE <<<<items[current].key, items[current].value>>>> \o WalkNext(items, items[current].next)

OrderedDict_toArray(d) == WalkNext(d._items, d._head)

\* ---------------------------------------------------------------- class Deque
\* A Deque is [_capacity, _length, _front, buffer]; a buffer slot is <<item>>, or <<>> where
\* the array holds undefined (a slot never written, or one pop, popLeft or clear emptied).
MIN_CAPACITY == 16
MAX_CAPACITY == 2^MaxCapacityBits
GROWTH_FACTOR == <<3, 2>>   \* 1.5, as a ratio
GROWTH_CONSTANT == 16

RangeError == [kind |-> "RangeError", val |-> <<>>]

\* a & b, a | b and a >> s on non-negative 32-bit integers.
RECURSIVE BitAnd(_, _)
BitAnd(a, b) ==
    IF a = 0 \/ b = 0 THEN 0 ELSE (a % 2) * (b % 2) + 2 * BitAnd(a \div 2, b \div 2)

RECURSIVE BitOr(_, _)
BitOr(a, b) ==
    IF a = 0 THEN b
    ELSE IF b = 0 THEN a
    ELSE (IF a % 2 = 1 \/ b % 2 = 1 THEN 1 ELSE 0) + 2 * BitOr(a \div 2, b \div 2)

ShiftRight(a, s) == a \div (2^s)

\* _pow2AtLeast(n); n >>> 0 leaves n, which lies between MIN_CAPACITY and MAX_CAPACITY, as it is.
_pow2AtLeast(n) ==
    LET n0 == n - 1
        n1 == BitOr(n0, ShiftRight(n0, 1))
        n2 == BitOr(n1, ShiftRight(n1, 2))
        n3 == BitOr(n2, ShiftRight(n2, 4))
        n4 == BitOr(n3, ShiftRight(n3, 8))
        n5 == BitOr(n4, ShiftRight(n4, 16))
    IN  n5 + 1

\* _getCapacity(capacity) with a number; with an array it is _getCapacity(capacity.length).
_getCapacity(capacity) ==
    LET atLeast == IF MIN_CAPACITY > capacity THEN MIN_CAPACITY ELSE capacity
        atMost == IF atLeast < MAX_CAPACITY THEN atLeast ELSE MAX_CAPACITY
    IN  _pow2AtLeast(atMost)

\* new Deque(array)
Deque_fromArray(array) ==
    LET capacity == _getCapacity(Len(array))
    IN  [_capacity |-> capacity,
         _length |-> Len(array),
         _front |-> 0,
         buffer |-> [j \in 1..capacity |-> IF j <= Len(array) THEN <<array[j]>> ELSE <<>>]]

\* new Deque(capacity) with an integer capacity
Deque_withCapacity(capacity) ==
    [_capacity |-> _getCapacity(capacity),
     _length |-> 0,
     _front |-> 0,
     buffer |-> [j \in 1.._getCapacity(capacity) |-> <<>>]]

\* new Deque()
EmptyDeque == Deque_fromArray(<<>>)

Deque_isEmpty(q) == q._length = 0

Deque_size(q) == q._length

\* A resize that copies the buffer slot by slot, without following _front.
_resizeTo_keepsSlots(q, newCapacity) ==
    [_capacity |-> newCapacity,
     _length |-> q._length,
     _front |-> 0,
     buffer |-> [j \in 1..newCapacity |-> IF j - 1 < q._length THEN At(q.buffer, j - 1) ELSE <<>>]]

\* _resizeTo(newCapacity): new Array(newCapacity) and one write for each of the _length
\* items, so the array is longer than newCapacity when _length is.
_resizeTo(q, newCapacity) ==
    [_capacity |-> newCapacity,
     _length |-> q._length,
     _front |-> 0,
     buffer |-> [j \in 1..(IF q._length > newCapacity THEN q._length ELSE newCapacity) |->
                   IF j - 1 < q._length
                   THEN At(q.buffer, BitAnd(q._front + (j - 1), q._capacity - 1))
                   ELSE <<>>]]

\* _checkCapacity(targetSize): the deque after it, and whether it threw the RangeError.
_checkCapacity(q, targetSize) ==
    IF q._capacity < targetSize
    THEN LET newCapacity ==
                 _getCapacity((q._capacity * GROWTH_FACTOR[1]) \div GROWTH_FACTOR[2]
                              + GROWTH_CONSTANT)
         IN  IF newCapacity > MAX_CAPACITY THEN [deque |-> q, thrown |-> TRUE]
             ELSE [deque |-> _resizeTo(q, newCapacity), thrown |-> FALSE]
    ELSE [deque |-> q, thrown |-> FALSE]

_decrementIndex(q, index) == BitAnd(index - 1 + q._capacity, q._capacity - 1)

\* What reading a buffer slot gives.
SlotValue(slot) == IF slot = <<>> THEN Undefined ELSE Item(slot[1])

Deque_push(q, item) ==
    LET checked == _checkCapacity(q, q._length + 1)
        q1 == checked.deque
        index == BitAnd(q1._front + q1._length, q1._capacity - 1)
    IN  IF checked.thrown THEN [deque |-> q, ret |-> RangeError]
        ELSE [deque |-> [q1 EXCEPT !.buffer = Put(q1.buffer, index, <<item>>),
                                   !._length = q1._length + 1],
              ret |-> This]

Deque_pushLeft(q, item) ==
    LET checked == _checkCapacity(q, q._length + 1)
        q1 == checked.deque
        front == _decrementIndex(q1, q1._front)
    IN  IF checked.thrown THEN [deque |-> q, ret |-> RangeError]
        ELSE [deque |-> [q1 EXCEPT !._front = front,
                                   !.buffer = Put(q1.buffer, front, <<item>>),
                                   !._length = q1._length + 1],
              ret |-> This]

Deque_pop(q) ==
    IF Deque_isEmpty(q) THEN [deque |-> q, ret |-> Undefined]
    ELSE LET index == BitAnd(q._front + q._length - 1, q._capacity - 1)
         IN  [deque |-> [q EXCEPT !.buffer = Put(q.buffer, index, <<>>),
                                  !._length = q._length - 1],
              ret |-> SlotValue(At(q.buffer, index))]

Deque_popLeft(q) ==
    IF Deque_isEmpty(q) THEN [deque |-> q, ret |-> Undefined]
    ELSE [deque |-> [q EXCEPT !.buffer = Put(q.buffer, q._front, <<>>),
                              !._front = BitAnd(q._front + 1, q._capacity - 1),
                              !._length = q._length - 1],
          ret |-> SlotValue(At(q.buffer, q._front))]

\* get(index) with an integer index.
Deque_get(q, index) ==
    IF Deque_isEmpty(q) THEN Undefined
    ELSE LET index1 == IF index < 0 THEN q._length + index ELSE index
         IN  IF index1 < 0 \/ index1 >= q._length THEN Undefined
             ELSE SlotValue(At(q.buffer, BitAnd(q._front + index1, q._capacity - 1)))

Deque_clear(q) ==
    [q EXCEPT !.buffer = [j \in 1..q._capacity |-> <<>>], !._length = 0, !._front = 0]

\* set(index, item) with an integer index
Deque_set(q, index, item) ==
    IF Deque_isEmpty(q) THEN [deque |-> q, ret |-> RangeError]
    ELSE LET index1 == IF index < 0 THEN q._length + index ELSE index
             actualIndex == BitAnd(q._front + index1, q._capacity - 1)
         IN  IF index1 < 0 \/ index1 >= q._length THEN [deque |-> q, ret |-> RangeError]
             ELSE [deque |-> [q EXCEPT !.buffer = Put(q.buffer, actualIndex, <<item>>)],
                   ret |-> This]

\* extend(elements): one push for each element; a push that throws ends the loop.
RECURSIVE Deque_extend(_, _)
Deque_extend(q, elements) ==
    IF elements = <<>> THEN [deque |-> q, ret |-> This]
    ELSE LET pushed == Deque_push(q, Head(elements))
         IN  IF pushed.ret = RangeError THEN pushed
             ELSE Deque_extend(pushed.deque, Tail(elements))

\* extendLeft(elements): one pushLeft for each element.
RECURSIVE Deque_extendLeft(_, _)
Deque_extendLeft(q, elements) ==
    IF elements = <<>> THEN [deque |-> q, ret |-> This]
    ELSE LET pushed == Deque_pushLeft(q, Head(elements))
         IN  IF pushed.ret = RangeError THEN pushed
             ELSE Deque_extendLeft(pushed.deque, Tail(elements))

\* toArray(), as the slots it reads.
Deque_toArray(q) ==
    [j \in 1..q._length |-> At(q.buffer, BitAnd(q._front + (j - 1), q._capacity - 1))]

\* ---------------------------------------------------------------- state
VARIABLES
    data,   \* Heap._data
    ord,    \* Heap._comparator: 1 the ascending comparator (-1: the inverted one)
    op,     \* the last call made on the heap
    arg,    \* its arguments: [items |-> the item(s) passed, n |-> the number passed]
            \* (and entries |-> the [key, value] pairs passed, where a call takes them)
    ret,    \* what it returned
    pre,    \* _data as it was before that call
    seed,   \* _data as it was before the current run of consecutive pop() calls
    out,    \* the elements that run of pop() calls has returned, in order
    counter, \* a Counter: [data |-> its Map as <<key, count>> entries in insertion order,
             \*             total |-> its _total]
    dict,    \* an OrderedDict: [_items, _head, _tail]
    deque,   \* a Deque: [_capacity, _length, _front, buffer]
    opIndex, \* the number of calls made on the deque so far (the test loop's i)
    detached, \* the DictEntry objects the last call took out of the OrderedDict, as it left them
    defaultdict \* DefaultDict._data, a Map as the sequence of its [key, value] entries

vars ==
    <<data, ord, op, arg, ret, pre, seed, out, counter, dict, deque, opIndex, detached,
      defaultdict>>


\* new Counter()
EmptyCounter == [data |-> <<>>, total |-> 0]

cmp == ElemCmp(ord)

NoArg == [items |-> <<>>, n |-> 0]
ItemArg(x) == [items |-> <<x>>, n |-> 0]
ItemsArg(xs) == [items |-> xs, n |-> 0]
NumArg(k) == [items |-> <<>>, n |-> k]
\* A Map, a Counter or an iterable of [key, value] pairs passed as the argument.
EntriesArg(entries) == [items |-> <<>>, n |-> 0, entries |-> entries]

\* A call other than pop() that leaves d in _data ends the run of pops.
Called(name, a, d, r) ==
    /\ op' = name
    /\ arg' = a
    /\ data' = d
    /\ ret' = r
    /\ pre' = data
    /\ seed' = d
    /\ out' = <<>>
    /\ UNCHANGED <<ord, counter, dict, deque, opIndex, detached, defaultdict>>

\* new Heap(), new Heap(comparator), new Heap(iterable, comparator), with the ascending
\* comparator: the element set is symmetric under reversal of the keys, so the inverted
\* comparator gives the mirror image of the same state graph.
Init ==
    /\ ord = 1
    /\ \E iterable \in SeqsUpTo(MaxLen) :
          /\ data = heapify(iterable, ElemCmp(ord), <<>>)
          /\ arg = ItemsArg(iterable)
          /\ seed = data
    /\ op = "constructor"
    /\ ret = This
    /\ pre = <<>>
    /\ out = <<>>
    /\ counter = EmptyCounter
    /\ dict = EmptyDict
    /\ deque = EmptyDeque
    /\ opIndex = 0
    /\ detached = {}
    /\ defaultdict = <<>>

Push ==
    /\ Len(data) < MaxLen
    /\ \E item \in Elem : Called("push", ItemArg(item), push(data, cmp, item), This)

Pop ==
    LET r == pop(data, cmp)
    IN  /\ op' = "pop"
        /\ arg' = NoArg
        /\ data' = r.data
        /\ ret' = r.ret
        /\ pre' = data
        /\ seed' = (IF op = "pop" THEN seed ELSE data)
        /\ out' = (IF op = "pop" THEN out ELSE <<>>) \o r.ret.val
        /\ UNCHANGED <<ord, counter, dict, deque, opIndex, detached, defaultdict>>

Peek ==
    \/ \E index \in (0 - 1)..MaxLen : Called("peek", NumArg(index), data, peek(data, index))
    \/ Called("peek()", NoArg, data, peek(data, 0))

Replace ==
    /\ Len(data) < MaxLen \/ data # <<>>
    /\ \E item \in Elem :
          LET r == replace(data, cmp, item)
          IN  Called("replace", ItemArg(item), r.data, r.ret)

PushPop ==
    \E item \in Elem :
       LET r == pushPop(data, cmp, item)
       IN  Called("pushPop", ItemArg(item), r.data, r.ret)

Heapify ==
    \E items \in SeqsUpTo(MaxItems) :
       /\ Len(data) + Len(items) <= MaxLen
       /\ Called("heapify", ItemsArg(items), heapify(data, cmp, items), This)

Sort ==
    LET r == sort(data, cmp)
    IN  Called("sort", NoArg, r.data, r.ret)

Nsmallest ==
    \E n \in (0 - 1)..MaxLen : Called("nsmallest", NumArg(n), data, nsmallest(data, ord, n))

Nlargest ==
    \E n \in (0 - 1)..MaxLen : Called("nlargest", NumArg(n), data, nlargest(data, ord, n))

Clear == Called("clear", NoArg, <<>>, Void)

Next ==
    \/ Push
    \/ Pop
    \/ Peek
    \/ Replace
    \/ PushPop
    \/ Heapify
    \/ Sort
    \/ Nsmallest
    \/ Nlargest
    \/ Clear

Spec == Init /\ [][Next]_vars

\* ---------------------------------------------------------------- selection over any sequence
\* heapq.nsmallest / heapq.nlargest applied to a caller-owned sequence held in data: any
\* array (heap-shaped or not), passed as it is ("array", len() defined) or through a
\* generator over it ("generator", len() undefined). One call is made on each sequence:
\* the sequences range over every array up to MaxLen and a call never lengthens one, so a
\* second call would repeat the first call made on another of them.
InitSelect ==
    /\ ord = 1
    /\ data \in SeqsUpTo(MaxLen)
    /\ op = "iterable"
    /\ arg = NoArg
    /\ ret = Void
    /\ pre = data
    /\ seed = data
    /\ out = <<>>
    /\ counter = EmptyCounter
    /\ dict = EmptyDict
    /\ deque = EmptyDeque
    /\ opIndex = 0
    /\ detached = {}
    /\ defaultdict = <<>>

IterableKind(lenKnown) == IF lenKnown THEN "array" ELSE "generator"

HeapqNsmallest ==
    /\ op = "iterable"
    /\ \E n \in (0 - 1)..MaxLen, lenKnown \in BOOLEAN :
       LET r == heapq_nsmallest(n, data, lenKnown)
       IN  Called("heapq.nsmallest", [items |-> <<>>, n |-> n, iterable |-> IterableKind(lenKnown)],
                  r.data, r.ret)

HeapqNlargest ==
    /\ op = "iterable"
    /\ \E n \in (0 - 1)..MaxLen, lenKnown \in BOOLEAN :
       LET r == heapq_nlargest(n, data, lenKnown)
       IN  Called("heapq.nlargest", [items |-> <<>>, n |-> n, iterable |-> IterableKind(lenKnown)],
                  r.data, r.ret)

NextSelect ==
    \/ HeapqNsmallest
    \/ HeapqNlargest

SpecSelect == InitSelect /\ [][NextSelect]_vars

\* ---------------------------------------------------------------- class Counter
\* The Map _data is the sequence of its [key, count] entries in insertion order.
CounterKeys == 1..MaxCounterKeys

MapHas(m, k) == \E i \in DOMAIN m : m[i][1] = k

\* this._data.get(key) || 0
MapGetOr0(m, k) == IF MapHas(m, k) THEN m[CHOOSE i \in DOMAIN m : m[i][1] = k][2] ELSE 0

\* Map.set: an existing key keeps its place, a new key goes last.
MapSet(m, k, v) ==
    IF MapHas(m, k)
    THEN [i \in DOMAIN m |-> IF m[i][1] = k THEN <<k, v>> ELSE m[i]]
    ELSE Append(m, <<k, v>>)

\* Map.delete
MapDelete(m, k) == SelectSeq(m, LAMBDA e : e[1] # k)

Counter_add(c, k, increment) ==
    [data |-> MapSet(c.data, k, MapGetOr0(c.data, k) + increment), total |-> c.total + increment]

RECURSIVE Counter_countElements(_, _)
Counter_countElements(c, iterable) ==
    IF iterable = <<>> THEN c
    ELSE Counter_countElements(
             [data |-> MapSet(c.data, Head(iterable), MapGetOr0(c.data, Head(iterable)) + 1),
              total |-> c.total + 1],
             Tail(iterable))

\* update(other) with an iterable of keys (not a Map).
Counter_update(c, other) == Counter_countElements(c, other)

\* new Counter(counter): the constructor hands the Counter to update(); a Counter is no Map,
\* so _countElements iterates it, and a Counter's iterator is entries(): each [key, count]
\* entry is counted once, as a key of its own.
Counter_fromCounter(c) == Counter_update(EmptyCounter, c.data)

Boolean(b) == [kind |-> "boolean", val |-> <<b>>]

\* A delete that forgets to take the count off _total.
Counter_delete_keepsTotal(c, k) ==
    IF ~MapHas(c.data, k) THEN [counter |-> c, ret |-> Boolean(FALSE)]
    ELSE [counter |-> [data |-> MapDelete(c.data, k), total |-> c.total], ret |-> Boolean(TRUE)]

Counter_delete(c, k) ==
    IF ~MapHas(c.data, k) THEN [counter |-> c, ret |-> Boolean(FALSE)]
    ELSE [counter |-> [data |-> MapDelete(c.data, k), total |-> c.total - MapGetOr0(c.data, k)],
          ret |-> Boolean(TRUE)]

\* update(other) with a Map: each [key, value] goes through add with (get(key) || 0) + value.
RECURSIVE Counter_updateMap(_, _)
Counter_updateMap(c, other) ==
    IF other = <<>> THEN c
    ELSE LET k == Head(other)[1]
             value == Head(other)[2]
         IN  Counter_updateMap(Counter_add(c, k, MapGetOr0(c.data, k) + value), Tail(other))

\* subtract(iterable) with an iterable of keys.
RECURSIVE Counter_subtract(_, _)
Counter_subtract(c, iterable) ==
    IF iterable = <<>> THEN c
    ELSE Counter_subtract(
             [data |-> MapSet(c.data, Head(iterable), MapGetOr0(c.data, Head(iterable)) - 1),
              total |-> c.total - 1],
             Tail(iterable))

\* subtract(iterable) with a Counter, given by its [key, count] entries.
RECURSIVE Counter_subtractCounter(_, _)
Counter_subtractCounter(c, other) ==
    IF other = <<>> THEN c
    ELSE LET k == Head(other)[1]
             value == Head(other)[2]
         IN  Counter_subtractCounter(
                 [data |-> MapSet(c.data, k, MapGetOr0(c.data, k) - value), total |-> c.total - value],
                 Tail(other))

Counter_clear(c) == [data |-> <<>>, total |-> 0]

Counter_size(c) == Len(c.data)

Number(v) == [kind |-> "number", val |-> <<v>>]

\* this._data.get(key) || defaultValue: an absent key and a stored 0 are both falsy.
Counter_get(c, k, defaultValue) ==
    IF MapHas(c.data, k) /\ MapGetOr0(c.data, k) # 0 THEN MapGetOr0(c.data, k) ELSE defaultValue

\* equals(other) with a Map or a Counter, given by its [key, count] entries.
Counter_equals(c, other) ==
    IF Counter_size(c) # Len(other) THEN FALSE
    ELSE \A i \in DOMAIN other : Counter_get(c, other[i][1], 0) = other[i][2]

\* equals(other) with an iterable of keys, counted into a new Counter first.
Counter_equalsIterable(c, other) ==
    LET otherCounter == Counter_update(EmptyCounter, other)
    IN  IF Counter_size(c) # Counter_size(otherCounter) THEN FALSE
        ELSE \A i \in DOMAIN c.data : Counter_get(otherCounter, c.data[i][1], 0) = c.data[i][2]

\* An entry [K, count] as an element the selection compares by count (a => a[1]), and back.
EntryElem(e) == <<e[2], e[1]>>
ElemEntry(x) == <<x[2], x[1]>>
EntryElems(m) == [i \in DOMAIN m |-> EntryElem(m[i])]
ElemEntries(xs) == [i \in DOMAIN xs |-> ElemEntry(xs[i])]

\* mostCommon(n?): given tells whether n was passed. this._data.entries() is an iterator,
\* for which len() is undefined.
Counter_mostCommon(c, given, n) ==
    IF given /\ n <= 0 THEN Array(<<>>)
    ELSE IF ~given \/ n > Len(c.data)
    THEN Array(ElemEntries(SortBy(EntryElems(c.data), NegElemCmp(1))))
    ELSE LET r == heapq_nlargest(n, EntryElems(c.data), FALSE).ret
         IN  IF r.kind = "array" THEN Array(ElemEntries(r.val)) ELSE r

\* new Counter(iterable)
InitCounter ==
    /\ \E iterable \in UNION {[1..m -> CounterKeys] : m \in 0..MaxTotal} :
          /\ counter = Counter_update(EmptyCounter, iterable)
          /\ arg = ItemsArg(iterable)
    /\ op = "Counter"
    /\ ret = This
    /\ ord = 1
    /\ data = <<>>
    /\ pre = EmptyCounter
    /\ seed = <<>>
    /\ out = <<>>
    /\ dict = EmptyDict
    /\ deque = EmptyDeque
    /\ opIndex = 0
    /\ detached = {}
    /\ defaultdict = <<>>

\* The counters the runs stay within.
CounterInBounds(c) ==
    /\ c.total <= MaxTotal
    /\ \A i \in DOMAIN c.data : c.data[i][2] \in (0 - MaxIncrement)..MaxTotal

\* Short iterables of keys, and short Maps (or Counters) as [key, value] entries.
KeyIterables == UNION {[1..m -> CounterKeys] : m \in 0..2}
MapValues == 0..MaxIncrement
OtherMaps ==
    {<<>>}
    \cup {<<<<k, v>>>> : k \in CounterKeys, v \in MapValues}
    \cup {<<<<k[1], v>>, <<k[2], v>>>> : k \in {x \in CounterKeys \X CounterKeys : x[1] # x[2]},
                                       v \in MapValues}

\* A call is made on the counter once the result of the last one has been taken; pre keeps
\* the Counter as it was before the call.
CounterCalled(name, a, c, r) ==
    /\ op \in {"Counter", "idle"}
    /\ CounterInBounds(c)
    /\ op' = name
    /\ arg' = a
    /\ counter' = c
    /\ ret' = r
    /\ pre' = counter
    /\ UNCHANGED <<data, ord, seed, out, dict, deque, opIndex, detached, defaultdict>>

\* The caller takes the result and goes on.
CounterReturn ==
    /\ op \notin {"Counter", "idle"}
    /\ op' = "idle"
    /\ arg' = NoArg
    /\ ret' = Void
    /\ pre' = counter
    /\ UNCHANGED <<counter, data, ord, seed, out, dict, deque, opIndex, detached, defaultdict>>

CounterAdd ==
    \E k \in CounterKeys, increment \in (0 - 1)..MaxIncrement :
       CounterCalled("add", [items |-> <<k>>, n |-> increment],
                     Counter_add(counter, k, increment), This)

CounterUpdate ==
    \E other \in UNION {[1..m -> CounterKeys] : m \in 0..MaxIncrement} :
       CounterCalled("update", ItemsArg(other), Counter_update(counter, other), Void)

CounterUpdateMap ==
    \E other \in OtherMaps :
       CounterCalled("update(Map)", EntriesArg(other), Counter_updateMap(counter, other), Void)

CounterSubtract ==
    \E iterable \in KeyIterables :
       CounterCalled("subtract", ItemsArg(iterable), Counter_subtract(counter, iterable), Void)

CounterSubtractCounter ==
    \E other \in OtherMaps :
       CounterCalled("subtract(Counter)", EntriesArg(other),
                     Counter_subtractCounter(counter, other), Void)

CounterClear == CounterCalled("clear", NoArg, Counter_clear(counter), Void)

\* get(key) and get(key, defaultValue) with a default no count equals.
CounterGet ==
    \E k \in CounterKeys, defaultValue \in {0, MaxTotal + 1} :
       CounterCalled("get", [items |-> <<k>>, n |-> defaultValue], counter,
                     Number(Counter_get(counter, k, defaultValue)))

CounterEquals ==
    \E other \in OtherMaps :
       CounterCalled("equals", EntriesArg(other), counter, Boolean(Counter_equals(counter, other)))

CounterEqualsIterable ==
    \E other \in KeyIterables :
       CounterCalled("equals(iterable)", ItemsArg(other), counter,
                     Boolean(Counter_equalsIterable(counter, other)))

CounterDelete ==
    \E k \in CounterKeys :
       LET r == Counter_delete(counter, k)
       IN  CounterCalled("delete", ItemArg(k), r.counter, r.ret)

CounterMostCommon ==
    \E n \in (0 - 1)..(MaxCounterKeys + 1) :
       CounterCalled("mostCommon(n)", NumArg(n), counter, Counter_mostCommon(counter, TRUE, n))

CounterMostCommonAll ==
    CounterCalled("mostCommon()", NoArg, counter, Counter_mostCommon(counter, FALSE, 0))

\* A Counter handed back by a call.
CounterValue(c) == [kind |-> "counter", val |-> c]

\* new Counter(counter), the counter itself being left as it is.
CounterCopy ==
    CounterCalled("new Counter(counter)", NoArg, counter,
                  CounterValue(Counter_fromCounter(counter)))

NextCounter ==
    \/ CounterReturn
    \/ CounterCopy
    \/ CounterAdd
    \/ CounterUpdate
    \/ CounterUpdateMap
    \/ CounterSubtract
    \/ CounterSubtractCounter
    \/ CounterClear
    \/ CounterGet
    \/ CounterEquals
    \/ CounterEqualsIterable
    \/ CounterDelete
    \/ CounterMostCommon
    \/ CounterMostCommonAll

SpecCounter == InitCounter /\ [][NextCounter]_vars

\* ---------------------------------------------------------------- the documented max-heap run
\* The user records { id, name } of the documentation, read by the comparator through id.
User(id) == <<id, 1>>
Users(ids) == [k \in DOMAIN ids |-> User(ids[k])]
ReadmeUsers == {User(1), User(2), User(3)}

\* new Heap(iterable, (a, b) => b.id - a.id) over any array of up to three of the users.
InitReadme ==
    /\ ord = 0 - 1
    /\ \E iterable \in UNION {[1..m -> ReadmeUsers] : m \in 0..Cardinality(ReadmeUsers)} :
          /\ data = heapify(iterable, ElemCmp(ord), <<>>)
          /\ arg = ItemsArg(iterable)
          /\ seed = data
    /\ op = "constructor"
    /\ ret = This
    /\ pre = <<>>
    /\ out = <<>>
    /\ counter = EmptyCounter
    /\ dict = EmptyDict
    /\ deque = EmptyDeque
    /\ opIndex = 0
    /\ detached = {}
    /\ defaultdict = <<>>

\* maxheap.push({ id: 4, name: "user4" })
ReadmePush ==
    /\ op = "constructor"
    /\ Called("push", ItemArg(User(4)), push(data, cmp, User(4)), This)

\* maxheap.pop()
ReadmePop ==
    /\ op = "push"
    /\ Pop

\* The calls that follow the pop only read the heap: seed and out keep what the pop left.
ReadmeRead(name, a, r) ==
    /\ op \in {"pop", "peek()", "nsmallest", "nlargest"}
    /\ op' = name
    /\ arg' = a
    /\ ret' = r
    /\ pre' = data
    /\ UNCHANGED <<data, ord, seed, out, counter, dict, deque, opIndex, detached, defaultdict>>

\* maxheap.peek()
ReadmePeek == ReadmeRead("peek()", NoArg, peek(data, 0))

\* maxheap.nsmallest(1)
ReadmeNsmallest == ReadmeRead("nsmallest", NumArg(1), nsmallest(data, ord, 1))

\* maxheap.nlargest(1)
ReadmeNlargest == ReadmeRead("nlargest", NumArg(1), nlargest(data, ord, 1))

NextReadme ==
    \/ ReadmePush
    \/ ReadmePop
    \/ ReadmePeek
    \/ ReadmeNsmallest
    \/ ReadmeNlargest

SpecReadme == InitReadme /\ [][NextReadme]_vars

\* ---------------------------------------------------------------- the documented heapq run
\* let heap = [5, 2, 10, 15, 32, 52, 100]
ReadmeHeap == Numbers(<<5, 2, 10, 15, 32, 52, 100>>)

\* The run is made on every arrangement of those numbers; seed keeps the array the run
\* started from and out what heapPop returned.
InitHeapq ==
    /\ ord = 1
    /\ \E p \in Permutations(DOMAIN ReadmeHeap) : data = [k \in DOMAIN ReadmeHeap |-> ReadmeHeap[p[k]]]
    /\ seed = data
    /\ op = "heap"
    /\ arg = NoArg
    /\ ret = Void
    /\ pre = data
    /\ out = <<>>
    /\ counter = EmptyCounter
    /\ dict = EmptyDict
    /\ deque = EmptyDeque
    /\ opIndex = 0
    /\ detached = {}
    /\ defaultdict = <<>>

HeapqStep(name, a, d, r, o) ==
    /\ op' = name
    /\ arg' = a
    /\ data' = d
    /\ ret' = r
    /\ pre' = data
    /\ out' = o
    /\ UNCHANGED <<ord, seed, counter, dict, deque, opIndex, detached, defaultdict>>

\* heapq.heapify(heap)
HeapqHeapify ==
    /\ op = "heap"
    /\ HeapqStep("heapq.heapify", NoArg, heapq_heapify(data), Void, out)

\* heapq.heapPush(heap, 5)
HeapqHeapPush ==
    /\ op = "heapq.heapify"
    /\ HeapqStep("heapq.heapPush", ItemsArg(Numbers(<<5>>)), heapq_heapPush(data, Numbers(<<5>>)[1]),
                 Void, out)

\* heapq.heapPop(heap)
HeapqHeapPop ==
    /\ op = "heapq.heapPush"
    /\ LET r == heapq_heapPop(data)
       IN  HeapqStep("heapq.heapPop", NoArg, r.data, r.ret, out \o r.ret.val)

\* heapq.heapPushPop(heap, 1)
HeapqHeapPushPop ==
    /\ op = "heapq.heapPop"
    /\ LET r == heapq_heapPushPop(data, Numbers(<<1>>)[1])
       IN  HeapqStep("heapq.heapPushPop", ItemsArg(Numbers(<<1>>)), r.data, r.ret, out)

\* heapq.nsmallest(3, heap)
HeapqReadmeNsmallest ==
    /\ op \in {"heapq.heapPushPop", "heapq.nlargest"}
    /\ LET r == heapq_nsmallest(3, data, TRUE)
       IN  HeapqStep("heapq.nsmallest", NumArg(3), r.data, r.ret, out)

\* heapq.nlargest(3, heap)
HeapqReadmeNlargest ==
    /\ op \in {"heapq.heapPushPop", "heapq.nsmallest"}
    /\ LET r == heapq_nlargest(3, data, TRUE)
       IN  HeapqStep("heapq.nlargest", NumArg(3), r.data, r.ret, out)

NextHeapq ==
    \/ HeapqHeapify
    \/ HeapqHeapPush
    \/ HeapqHeapPop
    \/ HeapqHeapPushPop
    \/ HeapqReadmeNsmallest
    \/ HeapqReadmeNlargest

SpecHeapq == InitHeapq /\ [][NextHeapq]_vars

\* ---------------------------------------------------------------- an OrderedDict in use
\* Short iterables of [key, value] pairs.
DictPairs == DictKeys \X DictValues
PairIterables == UNION {[1..m -> DictPairs] : m \in 0..2}

\* last, the boolean argument of popItem and moveToEnd, as the argument record's number.
LastArg(last) == IF last THEN 1 ELSE 0

\* new OrderedDict(iterable)
InitDict ==
    /\ \E iterable \in PairIterables :
          /\ dict = OrderedDict_update(EmptyDict, iterable)
          /\ arg = EntriesArg(iterable)
    /\ op = "OrderedDict"
    /\ ret = This
    /\ pre = EmptyDict
    /\ ord = 1
    /\ data = <<>>
    /\ seed = <<>>
    /\ out = <<>>
    /\ counter = EmptyCounter
    /\ deque = EmptyDeque
    /\ opIndex = 0
    /\ detached = {}
    /\ defaultdict = <<>>

\* A call is made on the dictionary once the result of the last one has been taken; pre
\* keeps the dictionary as it was before the call.
DictCalled(name, a, d, r, gone) ==
    /\ op \in {"OrderedDict", "idle"}
    /\ op' = name
    /\ arg' = a
    /\ dict' = d
    /\ ret' = r
    /\ pre' = dict
    /\ detached' = gone
    /\ UNCHANGED <<data, ord, seed, out, counter, deque, opIndex, defaultdict>>

\* The caller takes the result and goes on.
DictReturn ==
    /\ op \notin {"OrderedDict", "idle"}
    /\ op' = "idle"
    /\ arg' = NoArg
    /\ ret' = Void
    /\ pre' = dict
    /\ detached' = {}
    /\ UNCHANGED <<dict, data, ord, seed, out, counter, deque, opIndex, defaultdict>>

DictSetItem ==
    \E k \in DictKeys, value \in DictValues :
       DictCalled("setItem", ItemsArg(<<k, value>>), OrderedDict_setItem(dict, k, value), Void, {})

DictDeleteItem ==
    \E k \in DictKeys :
       LET r == OrderedDict_deleteItem(dict, k)
       IN  DictCalled("deleteItem", ItemsArg(<<k>>), r.dict, r.ret, r.detached)

DictMoveToEnd ==
    \E k \in DictKeys, last \in BOOLEAN :
       DictCalled("moveToEnd", [items |-> <<k>>, n |-> LastArg(last)],
                  OrderedDict_moveToEnd(dict, k, last), This, {})

DictPopItem ==
    \E last \in BOOLEAN :
       LET r == OrderedDict_popItem(dict, last)
       IN  DictCalled("popItem", NumArg(LastArg(last)), r.dict, r.ret, r.detached)

DictUpdate ==
    \E iterable \in PairIterables :
       DictCalled("update", EntriesArg(iterable), OrderedDict_update(dict, iterable), This, {})

DictClear ==
    DictCalled("clear", NoArg, OrderedDict_clear(dict), Void, OrderedDict_cleared(dict))

DictToArray == DictCalled("toArray", NoArg, dict, Array(OrderedDict_toArray(dict)), {})

NextDict ==
    \/ DictReturn
    \/ DictSetItem
    \/ DictDeleteItem
    \/ DictMoveToEnd
    \/ DictPopItem
    \/ DictUpdate
    \/ DictClear
    \/ DictToArray

SpecDict == InitDict /\ [][NextDict]_vars

\* ---------------------------------------------------------------- a Deque in use
\* The deque starts from an array that leaves the buffer empty, one short of full, full, or
\* takes a larger buffer; the items -1, -2, ... are none of the items pushed later.
DequeInitLens == {0, MIN_CAPACITY - 1, MIN_CAPACITY, MIN_CAPACITY + 1}
InitArray(n) == [j \in 1..n |-> 0 - j]

\* The indexes get is called with: from the front, from the back, and out of range once
\* the deque is short.
GetIndexes == (0 - 2)..1

\* new Deque(array)
InitDeque ==
    /\ \E n \in DequeInitLens :
          /\ deque = Deque_fromArray(InitArray(n))
          /\ arg = ItemsArg(InitArray(n))
    /\ op = "Deque"
    /\ ret = This
    /\ pre = EmptyDeque
    /\ opIndex = 0
    /\ detached = {}
    /\ defaultdict = <<>>
    /\ ord = 1
    /\ data = <<>>
    /\ seed = <<>>
    /\ out = <<>>
    /\ counter = EmptyCounter
    /\ dict = EmptyDict

\* The i-th call of the run, i < MaxOperations; pre keeps the deque as it was before it.
DequeCalled(name, a, q, r) ==
    /\ opIndex < MaxOperations
    /\ op' = name
    /\ arg' = a
    /\ deque' = q
    /\ ret' = r
    /\ pre' = deque
    /\ opIndex' = opIndex + 1
    /\ UNCHANGED <<data, ord, seed, out, counter, dict, detached, defaultdict>>

\* deque.push(i)
DequePush ==
    LET r == Deque_push(deque, opIndex)
    IN  DequeCalled("push", ItemArg(opIndex), r.deque, r.ret)

\* deque.pushLeft(i)
DequePushLeft ==
    LET r == Deque_pushLeft(deque, opIndex)
    IN  DequeCalled("pushLeft", ItemArg(opIndex), r.deque, r.ret)

DequePop ==
    LET r == Deque_pop(deque)
    IN  DequeCalled("pop", NoArg, r.deque, r.ret)

DequePopLeft ==
    LET r == Deque_popLeft(deque)
    IN  DequeCalled("popLeft", NoArg, r.deque, r.ret)

DequeGet ==
    \E index \in GetIndexes :
       DequeCalled("get", NumArg(index), deque, Deque_get(deque, index))

DequeClear == DequeCalled("clear", NoArg, Deque_clear(deque), Void)

NextDeque ==
    \/ DequePush
    \/ DequePushLeft
    \/ DequePop
    \/ DequePopLeft
    \/ DequeGet
    \/ DequeClear

SpecDeque == InitDeque /\ [][NextDeque]_vars

\* ---------------------------------------------------------------- class DefaultDict
\* new DefaultDict(() => 0); the values stored are undefined and the numbers 0..MaxDictValue.
factory == Item(0)
StoredValues == {Undefined} \cup {Item(v) : v \in 0..MaxDictValue}

\* Map.get(key)
MapGet(m, k) == IF MapHas(m, k) THEN m[CHOOSE j \in DOMAIN m : m[j][1] = k][2] ELSE Undefined

\* Each method gives the Map after the call, what is returned, and the values the factory
\* made during the call.
DefaultDict_get(m, k) ==
    IF ~MapHas(m, k) THEN [data |-> MapSet(m, k, factory), ret |-> factory, made |-> <<factory>>]
    ELSE [data |-> m, ret |-> MapGet(m, k), made |-> <<>>]

DefaultDict_set(m, k, value) == [data |-> MapSet(m, k, value), ret |-> Void, made |-> <<>>]

DefaultDict_delete(m, k) ==
    [data |-> MapDelete(m, k), ret |-> Boolean(MapHas(m, k)), made |-> <<>>]

DefaultDict_has(m, k) == [data |-> m, ret |-> Boolean(MapHas(m, k)), made |-> <<>>]

DefaultDict_pop(m, k) ==
    LET value == MapGet(m, k)
    IN  [data |-> IF value # Undefined THEN MapDelete(m, k) ELSE m, ret |-> value,
         made |-> <<>>]

DefaultDict_clear(m) == [data |-> <<>>, ret |-> Void, made |-> <<>>]

DefaultDict_size(m) == Len(m)

\* new DefaultDict(factory)
InitDefaultDict ==
    /\ defaultdict = <<>>
    /\ op = "DefaultDict"
    /\ arg = NoArg
    /\ ret = This
    /\ pre = <<>>
    /\ out = <<>>
    /\ ord = 1
    /\ data = <<>>
    /\ seed = <<>>
    /\ counter = EmptyCounter
    /\ dict = EmptyDict
    /\ deque = EmptyDeque
    /\ opIndex = 0
    /\ detached = {}

\* A call is made once the result of the last one has been taken; pre keeps the Map as it
\* was before the call and out the values the factory made during it.
DefaultDictCalled(name, a, r) ==
    /\ op \in {"DefaultDict", "idle"}
    /\ op' = name
    /\ arg' = a
    /\ defaultdict' = r.data
    /\ ret' = r.ret
    /\ out' = r.made
    /\ pre' = defaultdict
    /\ UNCHANGED <<data, ord, seed, counter, dict, deque, opIndex, detached>>

DefaultDictReturn ==
    /\ op \notin {"DefaultDict", "idle"}
    /\ op' = "idle"
    /\ arg' = NoArg
    /\ ret' = Void
    /\ out' = <<>>
    /\ pre' = defaultdict
    /\ UNCHANGED <<defaultdict, data, ord, seed, counter, dict, deque, opIndex, detached>>

DefaultDictKeys == 1..MaxDefaultDictKeys

DefaultDictGet ==
    \E k \in DefaultDictKeys :
       DefaultDictCalled("get", NumArg(k), DefaultDict_get(defaultdict, k))

DefaultDictSet ==
    \E k \in DefaultDictKeys, value \in StoredValues :
       DefaultDictCalled("set", [items |-> <<value>>, n |-> k],
                         DefaultDict_set(defaultdict, k, value))

DefaultDictDelete ==
    \E k \in DefaultDictKeys :
       DefaultDictCalled("delete", NumArg(k), DefaultDict_delete(defaultdict, k))

DefaultDictHas ==
    \E k \in DefaultDictKeys :
       DefaultDictCalled("has", NumArg(k), DefaultDict_has(defaultdict, k))

DefaultDictPop ==
    \E k \in DefaultDictKeys :
       DefaultDictCalled("pop", NumArg(k), DefaultDict_pop(defaultdict, k))

DefaultDictClear == DefaultDictCalled("clear", NoArg, DefaultDict_clear(defaultdict))

NextDefaultDict ==
    \/ DefaultDictReturn
    \/ DefaultDictGet
    \/ DefaultDictSet
    \/ DefaultDictDelete
    \/ DefaultDictHas
    \/ DefaultDictPop
    \/ DefaultDictClear

SpecDefaultDict == InitDefaultDict /\ [][NextDefaultDict]_vars

\* ---------------------------------------------------------------- the sift primitives alone
\* Positions of the implicit tree: a is d or an ancestor of d.
RECURSIVE IsAncestorOrSelf(_, _)
IsAncestorOrSelf(a, d) ==
    IF a = d THEN TRUE
    ELSE IF d <= a THEN FALSE
    ELSE IsAncestorOrSelf(a, (d - 1) \div 2)

\* The subtree rooted at root, within [0, length), satisfies the heap invariant.
SubtreeIsHeap(heap, root, length, c) ==
    \A child \in 1..(length - 1) :
       IsAncestorOrSelf(root, (child - 1) \div 2) =>
          Compare(c, At(heap, (child - 1) \div 2), At(heap, child)) <= 0

\* What _siftDown assumes: both subtrees below index satisfy the invariant.
SiftDownAssumes(heap, index, length, c) ==
    /\ SubtreeIsHeap(heap, 2 * index + 1, length, c)
    /\ SubtreeIsHeap(heap, 2 * index + 2, length, c)

\* What _siftUp assumes: no position other than index compares less than an ancestor of it.
SiftUpAssumes(heap, index, c) ==
    \A d \in 1..(Len(heap) - 1), a \in 0..(Len(heap) - 1) :
       (d # index /\ a # d /\ IsAncestorOrSelf(a, d)) =>
          Compare(c, At(heap, a), At(heap, d)) <= 0

\* The arguments after the array: the index and, for _siftDown, the length.
SiftArgs(index, length) == [items |-> <<index>>, n |-> length]

\* A non-empty array and either comparator.
InitSift ==
    /\ ord \in {1, 0 - 1}
    /\ data \in SeqsUpTo(MaxLen) \ {<<>>}
    /\ op = "array"
    /\ arg = NoArg
    /\ ret = Void
    /\ pre = data
    /\ seed = data
    /\ out = <<>>
    /\ counter = EmptyCounter
    /\ dict = EmptyDict
    /\ deque = EmptyDeque
    /\ opIndex = 0
    /\ detached = {}
    /\ defaultdict = <<>>

\* _siftDown(heap, index, length, comparator) on every input that meets its assumption.
SiftDown ==
    /\ op = "array"
    /\ \E index \in 0..(Len(data) - 1), length \in 0..Len(data) :
          /\ SiftDownAssumes(data, index, length, ElemCmp(ord))
          /\ Called("_siftDown", SiftArgs(index, length),
                    _siftDown(data, index, length, ElemCmp(ord)), Void)

\* _siftUp(heap, index, comparator) on every input that meets its assumption.
SiftUp ==
    /\ op = "array"
    /\ \E index \in 0..(Len(data) - 1) :
          /\ SiftUpAssumes(data, index, ElemCmp(ord))
          /\ Called("_siftUp", SiftArgs(index, 0), _siftUp(data, index, ElemCmp(ord)), Void)

NextSift ==
    \/ SiftDown
    \/ SiftUp

SpecSift == InitSift /\ [][NextSift]_vars

\* ---------------------------------------------------------------- the loops, one iteration at a time
\* One call of _siftDown, _siftUp, _heapify or of the `while (true)` scan of _nsmallest or
\* _nlargest (op names it), taken one loop iteration at a time:
\*   data     the array being sifted or heapified; for a scan, what the iterator has yet
\*            to yield
\*   opIndex  the loop variable (index, i)
\*   arg      items: the item being sifted; n: _siftDown's length, the scan's n
\*   pre      the scan's result array of [value, i] pairs
\*   seed     the input as first given
\*   out      the values the loop variable has taken, in order
\*   ret      Running until the loop is left
Running == [kind |-> "running", val |-> <<>>]

\* One pass through _siftUp's loop body that forgets `index = parentIndex`.
SiftUpBody_staysPut(heap, index, item, c) ==
    LET parentIndex == (index - 1) \div 2
    IN  IF Compare(c, item, At(heap, parentIndex)) >= 0
        THEN [heap |-> heap, index |-> index, break |-> TRUE]
        ELSE [heap |-> Put(heap, index, At(heap, parentIndex)), index |-> index,
              break |-> FALSE]

\* One pass through _siftUp's loop body, entered with index > 0.
SiftUpBody(heap, index, item, c) ==
    LET parentIndex == (index - 1) \div 2
    IN  IF Compare(c, item, At(heap, parentIndex)) >= 0
        THEN [heap |-> heap, index |-> index, break |-> TRUE]
        ELSE [heap |-> Put(heap, index, At(heap, parentIndex)), index |-> parentIndex,
              break |-> FALSE]

\* One pass through _siftDown's loop body, entered with index < length.
SiftDownBody(heap, index, length, item, c) ==
    LET left == 2 * index + 1
        right == left + 1
        s1 == IF left < length /\ Compare(c, At(heap, left), At(heap, index)) < 0
              THEN left ELSE index
        smallestIndex == IF right < length /\ Compare(c, At(heap, right), At(heap, s1)) < 0
                         THEN right ELSE s1
    IN  IF smallestIndex = index THEN [heap |-> heap, index |-> index, break |-> TRUE]
        ELSE [heap |-> Put(Put(heap, index, At(heap, smallestIndex)), smallestIndex, item),
              index |-> smallestIndex, break |-> FALSE]

\* The scan keeps the n smallest (sign 1) or the n largest (sign -1) in a heap ordered by hc.
ScanSign(name) == IF name = "_nsmallest" THEN 1 ELSE 0 - 1
ScanHeapCmp(name, o) == IF name = "_nsmallest" THEN NegPairCmp(o) ELSE PairCmp(o)
ScanSortCmp(name, o) == IF name = "_nsmallest" THEN PairCmp(o) ELSE NegPairCmp(o)

\* The arrays the loops run on.
LoopArrays == UNION {[1..k -> (1..MaxLoopKey) \X {1}] : k \in 0..MaxLoopLen}

\* Nothing has been called yet.
InitLoop ==
    /\ op = "caller"
    /\ ord = 1
    /\ data = <<>>
    /\ seed = <<>>
    /\ pre = <<>>
    /\ out = <<>>
    /\ arg = NoArg
    /\ ret = Void
    /\ opIndex = 0
    /\ counter = EmptyCounter
    /\ dict = EmptyDict
    /\ deque = EmptyDeque
    /\ detached = {}
    /\ defaultdict = <<>>

\* A call reaches the loop: the state on entry to it.
Entered(name, input, a, index, result, rest, visited) ==
    /\ op' = name
    /\ seed' = input
    /\ arg' = a
    /\ opIndex' = index
    /\ pre' = result
    /\ data' = rest
    /\ out' = visited
    /\ ret' = Running
    /\ UNCHANGED <<ord, counter, dict, deque, detached, defaultdict>>

\* _siftDown(heap, index, heap.length, comparator): const item = heap[index]
SiftDownEnter ==
    /\ op = "caller"
    /\ \E heap \in LoopArrays \ {<<>>} : \E index \in 0..(Len(heap) - 1) :
       Entered("_siftDown", heap, [items |-> <<At(heap, index)>>, n |-> Len(heap)], index,
               <<>>, heap, <<index>>)

\* _siftUp(heap, index, comparator): const item = heap[index]
SiftUpEnter ==
    /\ op = "caller"
    /\ \E heap \in LoopArrays \ {<<>>} : \E index \in 0..(Len(heap) - 1) :
       Entered("_siftUp", heap, ItemArg(At(heap, index)), index, <<>>, heap, <<index>>)

\* _heapify(items, comparator): let i = Math.floor(items.length / 2) - 1
HeapifyEnter ==
    /\ op = "caller"
    /\ \E items \in LoopArrays :
       Entered("_heapify", items, NoArg, (Len(items) \div 2) - 1, <<>>, items, <<>>)

\* _nsmallest or _nlargest(n, iterable, comparator) with n >= 2 and a generator that yields
\* at least one value: the first n values are paired with 0, 1, ... and heapified, and the
\* iterator holds the rest.
ScanEnter ==
    /\ op = "caller"
    /\ \E name \in {"_nsmallest", "_nlargest"}, iterable \in LoopArrays \ {<<>>},
          n \in 2..MaxLoopLen :
       LET result == SeedPairs(n, iterable)
       IN  Entered(name, iterable, NumArg(n), Len(result),
                   _heapify(result, ScanHeapCmp(name, ord)),
                   SubSeq(iterable, Len(result) + 1, Len(iterable)), <<>>)

\* while (index < length) { ...; if (smallestIndex === index) break; ...; index = smallestIndex }
SiftDownIterate ==
    /\ op = "_siftDown" /\ ret = Running
    /\ opIndex < arg.n
    /\ LET body == SiftDownBody(data, opIndex, arg.n, arg.items[1], ElemCmp(ord))
       IN  /\ ~body.break
           /\ data' = body.heap
           /\ opIndex' = body.index
           /\ out' = Append(out, body.index)
    /\ UNCHANGED <<ord, op, arg, ret, pre, seed, counter, dict, deque, detached, defaultdict>>

\* The loop condition fails or the body breaks, and _siftDown returns.
SiftDownReturn ==
    /\ op = "_siftDown" /\ ret = Running
    /\ IF opIndex < arg.n
       THEN SiftDownBody(data, opIndex, arg.n, arg.items[1], ElemCmp(ord)).break
       ELSE TRUE
    /\ ret' = Void
    /\ UNCHANGED <<data, ord, op, arg, pre, seed, out, counter, dict, deque, opIndex, detached,
                   defaultdict>>

\* while (index > 0) { ...; if (comparator(item, heap[parentIndex]) >= 0) break; ... }
SiftUpIterate ==
    /\ op = "_siftUp" /\ ret = Running
    /\ opIndex > 0
    /\ LET body == SiftUpBody(data, opIndex, arg.items[1], ElemCmp(ord))
       IN  /\ ~body.break
           /\ data' = body.heap
           /\ opIndex' = body.index
           /\ out' = Append(out, body.index)
    /\ UNCHANGED <<ord, op, arg, ret, pre, seed, counter, dict, deque, detached, defaultdict>>

\* The loop ends; heap[index] = item, and _siftUp returns.
SiftUpReturn ==
    /\ op = "_siftUp" /\ ret = Running
    /\ IF opIndex > 0
       THEN SiftUpBody(data, opIndex, arg.items[1], ElemCmp(ord)).break
       ELSE TRUE
    /\ data' = Put(data, opIndex, arg.items[1])
    /\ ret' = Void
    /\ UNCHANGED <<ord, op, arg, pre, seed, out, counter, dict, deque, opIndex, detached,
                   defaultdict>>

\* for (let i = Math.floor(items.length / 2) - 1; i >= 0; i--) _siftDown(items, i, ...)
HeapifyIterate ==
    /\ op = "_heapify" /\ ret = Running
    /\ opIndex >= 0
    /\ data' = _siftDown(data, opIndex, Len(data), ElemCmp(ord))
    /\ out' = Append(out, opIndex)
    /\ opIndex' = opIndex - 1
    /\ UNCHANGED <<ord, op, arg, ret, pre, seed, counter, dict, deque, detached, defaultdict>>

HeapifyReturn ==
    /\ op = "_heapify" /\ ret = Running
    /\ ~(opIndex >= 0)
    /\ ret' = Void
    /\ UNCHANGED <<data, ord, op, arg, pre, seed, out, counter, dict, deque, opIndex, detached,
                   defaultdict>>

\* while (true) { const { value, done } = it.next(); if (done) break; ... }
ScanIterate ==
    /\ op \in {"_nsmallest", "_nlargest"} /\ ret = Running
    /\ data # <<>>
    /\ pre' = ScanRest(pre, opIndex, <<Head(data)>>, ScanSign(op), ScanHeapCmp(op, ord), ord)
    /\ opIndex' = IF ScanSign(op) * comparator(ord, Head(data), At(pre, 0)[1]) < 0
                  THEN opIndex + 1 ELSE opIndex
    /\ data' = Tail(data)
    /\ out' = Append(out, opIndex)
    /\ UNCHANGED <<ord, op, arg, ret, seed, counter, dict, deque, detached, defaultdict>>

\* The iterator is done and the loop is left (`if (done) break`); the sort and the map
\* that follow are no loop, and ScanResult reads what they return off the result array.
ScanBreak ==
    /\ op \in {"_nsmallest", "_nlargest"} /\ ret = Running
    /\ data = <<>>
    /\ ret' = Void
    /\ UNCHANGED <<data, ord, op, arg, pre, seed, out, counter, dict, deque, opIndex, detached,
                   defaultdict>>

NextLoop ==
    \/ SiftDownEnter
    \/ SiftUpEnter
    \/ HeapifyEnter
    \/ ScanEnter
    \/ SiftDownIterate
    \/ SiftDownReturn
    \/ SiftUpIterate
    \/ SiftUpReturn
    \/ HeapifyIterate
    \/ HeapifyReturn
    \/ ScanIterate
    \/ ScanBreak

\* result.sort(heapComparator); return result.map(([item]) => item)
ScanResult(name, result, o) == Array(MapFirst(SortBy(result, ScanSortCmp(name, o))))

\* The functions are synchronous and single-threaded: a loop that can take its next
\* iteration, or return, does.
SpecLoop == InitLoop /\ [][NextLoop]_vars /\ WF_vars(NextLoop)

\* ---------------------------------------------------------------- a Deque at its limit
\* The deque starts from an array that leaves the largest buffer one short of full or full,
\* or from a capacity below the smallest or above the largest buffer.
LimitInitLens == {MAX_CAPACITY - 1, MAX_CAPACITY}
LimitInitCapacities == {0, MAX_CAPACITY + 1}

\* The indexes set is called with: the back, the front, and one past a full buffer.
SetIndexes == {0 - 1, 0, MAX_CAPACITY}

\* new Deque(array) or new Deque(capacity)
InitDequeLimit ==
    /\ \/ \E n \in LimitInitLens :
             /\ deque = Deque_fromArray(InitArray(n))
             /\ arg = ItemsArg(InitArray(n))
       \/ \E capacity \in LimitInitCapacities :
             /\ deque = Deque_withCapacity(capacity)
             /\ arg = NumArg(capacity)
    /\ op = "Deque"
    /\ ret = This
    /\ pre = EmptyDeque
    /\ opIndex = 0
    /\ detached = {}
    /\ defaultdict = <<>>
    /\ ord = 1
    /\ data = <<>>
    /\ seed = <<>>
    /\ out = <<>>
    /\ counter = EmptyCounter
    /\ dict = EmptyDict

\* The i-th call of the run, i < MaxLimitOperations; pre keeps the deque as it was before it.
LimitCalled(name, a, q, r) ==
    /\ opIndex < MaxLimitOperations
    /\ op' = name
    /\ arg' = a
    /\ deque' = q
    /\ ret' = r
    /\ pre' = deque
    /\ opIndex' = opIndex + 1
    /\ UNCHANGED <<data, ord, seed, out, counter, dict, detached, defaultdict>>

\* The two items the i-th call hands to extend or extendLeft.
ExtendItems(n) == <<n, n + MaxLimitOperations>>

LimitPush ==
    LET r == Deque_push(deque, opIndex)
    IN  LimitCalled("push", ItemArg(opIndex), r.deque, r.ret)

LimitPushLeft ==
    LET r == Deque_pushLeft(deque, opIndex)
    IN  LimitCalled("pushLeft", ItemArg(opIndex), r.deque, r.ret)

LimitPop ==
    LET r == Deque_pop(deque)
    IN  LimitCalled("pop", NoArg, r.deque, r.ret)

LimitPopLeft ==
    LET r == Deque_popLeft(deque)
    IN  LimitCalled("popLeft", NoArg, r.deque, r.ret)

LimitSet ==
    \E index \in SetIndexes :
       LET r == Deque_set(deque, index, opIndex)
       IN  LimitCalled("set", [items |-> <<opIndex>>, n |-> index], r.deque, r.ret)

LimitExtend ==
    LET r == Deque_extend(deque, ExtendItems(opIndex))
    IN  LimitCalled("extend", ItemsArg(ExtendItems(opIndex)), r.deque, r.ret)

LimitExtendLeft ==
    LET r == Deque_extendLeft(deque, ExtendItems(opIndex))
    IN  LimitCalled("extendLeft", ItemsArg(ExtendItems(opIndex)), r.deque, r.ret)

LimitClear == LimitCalled("clear", NoArg, Deque_clear(deque), Void)

NextDequeLimit ==
    \/ LimitPush
    \/ LimitPushLeft
    \/ LimitPop
    \/ LimitPopLeft
    \/ LimitSet
    \/ LimitExtend
    \/ LimitExtendLeft
    \/ LimitClear

SpecDequeLimit == InitDequeLimit /\ [][NextDequeLimit]_vars

\* ---------------------------------------------------------------- properties
\* The binary-heap invariant over a whole array.
IsHeap(d, c) ==
    \A i \in 0..(Len(d) - 1) :
       \A child \in {2 * i + 1, 2 * i + 2} :
          child < Len(d) => Compare(c, At(d, i), At(d, child)) <= 0

\* The multiset of the elements of an array.
BagOf(s) == [e \in {s[k] : k \in DOMAIN s} |-> Cardinality({k \in DOMAIN s : s[k] = e})]

\* Non-decreasing under the comparator.
IsSorted(s, c) == \A i, j \in DOMAIN s : i < j => Compare(c, s[i], s[j]) <= 0

\* C1 - Heap invariant: after construction and after every push, pop, replace, pushPop,
\* heapify(items?) and clear, every parent compares <= each of its children in _data.
C1_HeapInvariant == IsHeap(data, cmp)

\* A replace whose item sank two levels, to index 3 of a full heap.
C1_Witness ==
    /\ op = "replace"
    /\ Len(data) >= 4
    /\ At(data, 3) = arg.items[1]
    /\ Compare(cmp, At(data, 1), At(data, 3)) < 0
    /\ Compare(cmp, At(data, 1), At(data, 2)) > 0

\* C2 - Pop ordering: the elements a run of pop() calls returns come out in non-decreasing
\* comparator order, and once the heap is empty they are exactly the elements the heap
\* held when the run began, each once.
C2_PopOrdering ==
    op = "pop" =>
       /\ IsSorted(out, cmp)
       /\ BagOf(out) (+) BagOf(data) = BagOf(seed)
       /\ data = <<>> => BagOf(out) = BagOf(seed)

\* A heap of four elements with a duplicate key, drained to empty.
C2_Witness ==
    /\ op = "pop"
    /\ data = <<>>
    /\ Len(out) >= 4
    /\ \E i \in 1..(Len(out) - 1) : out[i] # out[i + 1] /\ Compare(cmp, out[i], out[i + 1]) = 0
    /\ Compare(cmp, out[1], out[Len(out)]) < 0
    /\ ~IsSorted(seed, cmp)

\* C3 - The value pushPop(x) returns compares <= every element the heap holds afterwards.
C3_PushPopReturnsMin ==
    op = "pushPop" =>
       /\ ret.kind = "item"
       /\ \A k \in DOMAIN data : Compare(cmp, ret.val[1], data[k]) <= 0

\* pushPop returned the old root and the pushed item sank below the new root.
C3_Witness ==
    /\ op = "pushPop"
    /\ Len(data) >= 3
    /\ ret = Item(At(pre, 0))
    /\ At(data, 0) # arg.items[1]
    /\ Compare(cmp, ret.val[1], At(data, 0)) < 0

\* C4 as stated - pushPop(x) on a non-empty heap never increases the root: the root after
\* the call does not compare greater than the root before it.
C4_PushPopNeverIncreasesMin ==
    (op = "pushPop" /\ pre # <<>>) => Compare(cmp, At(data, 0), At(pre, 0)) <= 0

\* C4 amended - pushPop(x) on a non-empty heap never decreases the root: the root after
\* the call does not compare less than the root before it.
C4_PushPopNeverDecreasesMin ==
    (op = "pushPop" /\ pre # <<>>) =>
       /\ data # <<>>
       /\ Compare(cmp, At(data, 0), At(pre, 0)) >= 0

\* pushPop on a heap of at least three elements that swapped the item in and raised the root.
C4_Witness ==
    /\ op = "pushPop"
    /\ Len(pre) >= 3
    /\ ret = Item(At(pre, 0))
    /\ Compare(cmp, At(data, 0), At(pre, 0)) > 0

\* C5 - When the heap is empty or x compares less than the root, pushPop(x) returns x
\* itself and leaves _data as it was, element for element.
C5_PushPopNoMutation ==
    (op = "pushPop" /\ (pre = <<>> \/ Compare(cmp, arg.items[1], At(pre, 0)) < 0)) =>
       /\ ret = Item(arg.items[1])
       /\ data = pre

\* pushPop on a heap of at least three elements with an item below the root.
C5_Witness ==
    /\ op = "pushPop"
    /\ Len(pre) >= 3
    /\ Compare(cmp, arg.items[1], At(pre, 0)) < 0

\* C6 - pushPop(x) agrees with push(x) followed by pop() on a copy of the heap: the two
\* returned values compare equal and both leave the same multiset of elements and the
\* same size.
C6_PushPopIsPushThenPop ==
    op = "pushPop" =>
       LET x == arg.items[1]
           alt == pop(push(pre, cmp, x), cmp)
       IN  /\ ret.kind = "item"
           /\ alt.ret.kind = "item"
           /\ Compare(cmp, ret.val[1], alt.ret.val[1]) = 0
           /\ BagOf(data) = BagOf(alt.data)
           /\ Len(data) = Len(alt.data)

\* pushPop with an item that compares equal to the root without being the root.
C6_Witness ==
    /\ op = "pushPop"
    /\ Len(pre) >= 2
    /\ Compare(cmp, arg.items[1], At(pre, 0)) = 0
    /\ arg.items[1] # At(pre, 0)

\* C7 - replace(x) returns what pop() would have returned, leaves the multiset that pop()
\* followed by push(x) leaves, keeps the heap invariant, and on an empty heap leaves [x].
C7_ReplaceIsPopThenPush ==
    op = "replace" =>
       LET x == arg.items[1]
           p == pop(pre, cmp)
       IN  /\ ret = p.ret
           /\ BagOf(data) = BagOf(push(p.data, cmp, x))
           /\ IsHeap(data, cmp)
           /\ pre = <<>> => data = <<x>>

\* replace on a heap of at least three elements with an item above both children of the root.
C7_Witness ==
    /\ op = "replace"
    /\ Len(pre) >= 3
    /\ Compare(cmp, arg.items[1], At(pre, 1)) > 0
    /\ Compare(cmp, arg.items[1], At(pre, 2)) > 0

\* C8 - On an empty heap no operation fails: pop() and peek() return undefined and leave
\* it empty, replace(x) returns undefined, sort(), nsmallest(n) and nlargest(n) return an
\* empty array, heapify() and clear() leave it empty, and none raises an error.
C8_TotalOnEmpty ==
    pre = <<>> =>
       /\ ret.kind # "TypeError"
       /\ op = "pop" => (ret = Undefined /\ data = <<>>)
       /\ op \in {"peek", "peek()"} => (ret = Undefined /\ data = <<>>)
       /\ op = "replace" => ret = Undefined
       /\ op \in {"sort", "nsmallest", "nlargest"} => (ret = Array(<<>>) /\ data = <<>>)
       /\ (op = "heapify" /\ arg.items = <<>>) => data = <<>>
       /\ op = "clear" => data = <<>>

\* replace(x) called on an empty heap.
C8_Witness ==
    /\ pre = <<>>
    /\ op = "replace"
    /\ data = arg.items

\* C9 - peek(index) returns _data[index] when 0 <= index < size and undefined for every
\* other index, peek() returns the root, and neither changes the heap.
C9_Peek ==
    /\ op = "peek" =>
          /\ ret = (IF 0 <= arg.n /\ arg.n < Len(pre) THEN Item(pre[arg.n + 1]) ELSE Undefined)
          /\ data = pre
    /\ op = "peek()" =>
          /\ ret = (IF pre = <<>> THEN Undefined ELSE Item(pre[1]))
          /\ data = pre

\* peek at an index past the end of a non-empty heap.
C9_Witness ==
    /\ op = "peek"
    /\ pre # <<>>
    /\ arg.n >= Len(pre)
    /\ ret = Undefined

\* C10 - sort() returns a permutation of the heap's elements in non-decreasing comparator
\* order and leaves _data as it was, element for element.
C10_Sort ==
    op = "sort" =>
       /\ ret.kind = "array"
       /\ BagOf(ret.val) = BagOf(pre)
       /\ IsSorted(ret.val, cmp)
       /\ data = pre

\* sort() on a heap whose backing array is not itself in sorted order.
C10_Witness ==
    /\ op = "sort"
    /\ Len(pre) >= 3
    /\ ~IsSorted(pre, cmp)
    /\ ret.val # pre

\* ---------------------------------------------------------------- properties of the selection
Min(a, b) == IF a < b THEN a ELSE b
Max(a, b) == IF a > b THEN a ELSE b

\* Non-decreasing / non-increasing in the compared key.
IsAscending(r) == \A i, j \in DOMAIN r : i < j => key(r[i]) <= key(r[j])
IsDescending(r) == \A i, j \in DOMAIN r : i < j => key(r[i]) >= key(r[j])

\* The stable sorts of s, by counting for each position how many positions go before it:
\* those with a smaller (larger) key and the earlier ones with the same key.
StableAscending(s) ==
    LET before(k) == {j \in DOMAIN s : key(s[j]) < key(s[k]) \/ (key(s[j]) = key(s[k]) /\ j < k)}
    IN  [r \in DOMAIN s |-> s[CHOOSE k \in DOMAIN s : Cardinality(before(k)) = r - 1]]

StableDescending(s) ==
    LET before(k) == {j \in DOMAIN s : key(s[j]) > key(s[k]) \/ (key(s[j]) = key(s[k]) /\ j < k)}
    IN  [r \in DOMAIN s |-> s[CHOOSE k \in DOMAIN s : Cardinality(before(k)) = r - 1]]

\* The elements of s that r leaves out.
LeftOut(s, r) == BagToSet(BagOf(s) (-) BagOf(r))

IsSelection(name) == name \in {"heapq.nsmallest", "heapq.nlargest"}

C12_RoundTrip ==
    (IsSelection(op) /\ arg.n >= Len(pre)) =>
       /\ ret.kind = "array"
       /\ BagOf(ret.val) = BagOf(pre)
       /\ op = "heapq.nsmallest" => IsAscending(ret.val)
       /\ op = "heapq.nlargest" => IsDescending(ret.val)

\* nlargest(n) with n = |s| on an array of at least three elements in ascending order.
C12_Witness ==
    /\ op = "heapq.nlargest"
    /\ arg.iterable = "array"
    /\ arg.n = Len(pre)
    /\ Len(pre) >= 3
    /\ IsAscending(pre)
    /\ key(pre[1]) < key(pre[Len(pre)])

\* C13 - nsmallest(n, s) for n >= 1 is the first min(n, |s|) elements of the stable
\* ascending sort of s: equal elements keep their original order, and of several equal
\* elements that do not all fit the earliest are the ones returned.
C13_NsmallestStable ==
    (op = "heapq.nsmallest" /\ arg.n >= 1) =>
       ret = Array(SubSeq(StableAscending(pre), 1, Min(arg.n, Len(pre))))

\* The bounded-heap path (1 < n < |s|) on a sequence whose two equal-key elements both
\* compete for the last place: only the earlier one is returned.
C13_Witness ==
    /\ op = "heapq.nsmallest"
    /\ arg.n = 2
    /\ Len(pre) >= 4
    /\ \E p, q \in DOMAIN pre :
          /\ p < q
          /\ pre[p] # pre[q]
          /\ key(pre[p]) = key(pre[q])
          /\ ret.val[2] = pre[p]
          /\ \A k \in DOMAIN ret.val : ret.val[k] # pre[q]

\* C14 - nlargest(n, s) for n >= 1 returns the min(n, |s|) largest elements in
\* non-increasing order, and of two returned elements that compare equal the one that
\* occurs earlier in s comes first.
C14_NlargestStable ==
    (op = "heapq.nlargest" /\ arg.n >= 1) =>
       LET r == ret.val
       IN  /\ Len(r) = Min(arg.n, Len(pre))
           /\ IsDescending(r)
           /\ \A x \in DOMAIN r : \A y \in LeftOut(pre, r) : key(r[x]) >= key(y)
           /\ \A i, j \in DOMAIN r :
                 (i < j /\ key(r[i]) = key(r[j]) /\ r[i] # r[j]) =>
                    \E p, q \in DOMAIN pre : p < q /\ pre[p] = r[i] /\ pre[q] = r[j]

\* C15 - nsmallest(n, s) and nlargest(n, s) return exactly min(max(n, 0), |s|) elements,
\* a sub-multiset of s: nothing for n <= 0 or an empty s, everything for n > |s|, and
\* never an error.
C15_SelectionSize ==
    IsSelection(op) =>
       /\ ret.kind = "array"
       /\ Len(ret.val) = Min(Max(arg.n, 0), Len(pre))
       /\ BagOf(ret.val) \sqsubseteq BagOf(pre)

\* The bounded-heap path on a generator: fewer elements asked for than the sequence holds.
C15_Witness ==
    /\ op = "heapq.nlargest"
    /\ arg.iterable = "generator"
    /\ arg.n >= 2
    /\ Len(pre) > arg.n
    /\ Len(ret.val) = arg.n

\* C19 - heapq.nsmallest(n, s, key) and heapq.nlargest(n, s, key) select by the key: they
\* return min(n, |s|) elements of s, none with a larger (smaller) key than an element left
\* out, in non-decreasing (non-increasing) order of key.
C19_KeyProjection ==
    IsSelection(op) =>
       LET r == ret.val
       IN  /\ Len(r) = Min(Max(arg.n, 0), Len(pre))
           /\ BagOf(r) \sqsubseteq BagOf(pre)
           /\ op = "heapq.nsmallest" =>
                 /\ IsAscending(r)
                 /\ \A x \in DOMAIN r : \A y \in LeftOut(pre, r) : key(r[x]) <= key(y)
           /\ op = "heapq.nlargest" =>
                 /\ IsDescending(r)
                 /\ \A x \in DOMAIN r : \A y \in LeftOut(pre, r) : key(r[x]) >= key(y)

\* nlargest(2, s, key) on a sequence of at least four elements whose largest key comes last.
C19_Witness ==
    /\ op = "heapq.nlargest"
    /\ arg.n = 2
    /\ Len(pre) >= 4
    /\ \A k \in 1..(Len(pre) - 1) : key(pre[k]) < key(pre[Len(pre)])
    /\ ret.val[1] = pre[Len(pre)]
    /\ key(ret.val[2]) < key(ret.val[1])

\* ---------------------------------------------------------------- properties of heapify
\* The elements that repeated pop() calls return until the heap is empty, in order.
RECURSIVE Drain(_, _)
Drain(d, c) ==
    IF d = <<>> THEN <<>>
    ELSE pop(d, c).ret.val \o Drain(pop(d, c).data, c)

\* The array of the heapify test and, per the test and the documentation, what heapify
\* makes of it and what repeated pops then return.
HeapifyExample == Numbers(<<4, 2, 7, 1, 9>>)
HeapifyExampleHeap == Numbers(<<1, 2, 7, 4, 9>>)
HeapifyExampleDrained == Numbers(<<1, 2, 4, 7, 9>>)

\* C16 - heapify is idempotent: called on an array that already satisfies the heap
\* invariant (the heap's array after any construction, push, pop, ... is one) it leaves
\* the array unchanged element for element, and so its pop order too.
C16_HeapifyIdempotent ==
    /\ _heapify(data, cmp) = data
    /\ (op = "heapify" /\ arg.items = <<>>) => (data = pre /\ Drain(data, cmp) = Drain(pre, cmp))

\* heapify() on a heap of at least four elements in which a child ties with its parent.
C16_Witness ==
    /\ op = "heapify"
    /\ arg.items = <<>>
    /\ Len(pre) >= 4
    /\ \E k \in 1..(Len(pre) - 1) : key(At(pre, k)) = key(At(pre, (k - 1) \div 2))
    /\ data = pre

\* C17 - heapify builds the invariant and keeps the elements: after new Heap(a, comparator)
\* the array is a heap holding exactly the multiset of a, and after heapify(items) it is a
\* heap holding what it held before plus items; heapify([4,2,7,1,9]) leaves 1 at the root
\* and repeated pop yields [1,2,4,7,9].
C17_HeapifyBuildsHeap ==
    /\ op = "constructor" => (IsHeap(data, cmp) /\ BagOf(data) = BagOf(arg.items))
    /\ op = "heapify" => (IsHeap(data, cmp) /\ BagOf(data) = BagOf(pre \o arg.items))
    /\ _heapify(HeapifyExample, ElemCmp(1)) = HeapifyExampleHeap
    /\ Drain(HeapifyExampleHeap, ElemCmp(1)) = HeapifyExampleDrained

\* A heap constructed from an array of at least four elements that was not a heap.
C17_Witness ==
    /\ op = "constructor"
    /\ Len(arg.items) >= 4
    /\ ~IsHeap(arg.items, cmp)
    /\ data # arg.items
    /\ IsHeap(data, cmp)

\* ---------------------------------------------------------------- properties of Counter
\* C18 - Counter.mostCommon(n), for 1 <= n <= the number of distinct keys, returns exactly
\* n [key, count] pairs in non-increasing count order, ties in key insertion order: the
\* first n entries of mostCommon() called without argument.
C18_MostCommonPrefix ==
    (op = "mostCommon(n)" /\ arg.n >= 1 /\ arg.n <= Len(counter.data)) =>
       /\ ret.kind = "array"
       /\ Len(ret.val) = arg.n
       /\ ret.val = SubSeq(Counter_mostCommon(counter, FALSE, 0).val, 1, arg.n)
       /\ ret.val = ElemEntries(SubSeq(StableDescending(EntryElems(counter.data)), 1, arg.n))

\* ---------------------------------------------------------------- the documented max-heap run
\* C20 - The documented max-heap run: on a heap built with (a, b) => b.id - a.id from the
\* ids 1, 2, 3, after push(id 4) and pop(), which returns id 4, peek() is id 3,
\* nsmallest(1) returns the element with the smallest id, [id 1], and nlargest(1) the
\* element with the largest id, [id 3].
C20_ReadmeMaxHeap ==
    (ord = 0 - 1 /\ BagOf(seed) = BagOf(Users(<<1, 2, 3, 4>>)) /\ Len(out) = 1) =>
       /\ out = Users(<<4>>)
       /\ op = "peek()" => ret = Item(User(3))
       /\ op = "nsmallest" => ret = Array(Users(<<1>>))
       /\ op = "nlargest" => ret = Array(Users(<<3>>))

\* ---------------------------------------------------------------- the documented heapq run
\* C21 - The documented heapq run: from heap = [5, 2, 10, 15, 32, 52, 100], after
\* heapify, heapPush(heap, 5), heapPop (which returns 2) and heapPushPop(heap, 1),
\* nsmallest(3, heap) returns [1, 5, 5] and nlargest(3, heap) returns [100, 52, 32].
C21_ReadmeHeapq ==
    seed = ReadmeHeap =>
       /\ op \in {"heapq.heapPop", "heapq.heapPushPop", "heapq.nsmallest", "heapq.nlargest"} =>
             out = Numbers(<<2>>)
       /\ op = "heapq.nsmallest" => ret = Array(Numbers(<<1, 5, 5>>))
       /\ op = "heapq.nlargest" => ret = Array(Numbers(<<100, 52, 32>>))

\* ---------------------------------------------------------------- size and content accounting
\* C22 - Size and content accounting: push(x) adds exactly x and size grows by 1; pop() on a
\* non-empty heap removes exactly the returned root and size shrinks by 1; pushPop never
\* changes size; replace keeps size on a non-empty heap and makes it 1 on an empty one;
\* heapify(items) adds exactly items; clear() makes size 0 and isEmpty true; no operation
\* loses or duplicates any other element.
C22_Accounting ==
    /\ op = "push" =>
          (size(data) = size(pre) + 1 /\ BagOf(data) = BagOf(pre) (+) BagOf(arg.items))
    /\ (op = "pop" /\ pre # <<>>) =>
          (size(data) = size(pre) - 1 /\ BagOf(data) (+) BagOf(ret.val) = BagOf(pre))
    /\ (op = "pop" /\ pre = <<>>) => data = <<>>
    /\ op = "pushPop" =>
          /\ size(data) = size(pre)
          /\ BagOf(data) (+) BagOf(ret.val) = BagOf(pre) (+) BagOf(arg.items)
    /\ (op = "replace" /\ pre # <<>>) =>
          /\ size(data) = size(pre)
          /\ BagOf(data) (+) BagOf(ret.val) = BagOf(pre) (+) BagOf(arg.items)
    /\ (op = "replace" /\ pre = <<>>) => (size(data) = 1 /\ data = arg.items)
    /\ op = "heapify" =>
          /\ size(data) = size(pre) + Len(arg.items)
          /\ BagOf(data) = BagOf(pre) (+) BagOf(arg.items)
    /\ op = "clear" => (size(data) = 0 /\ isEmpty(data))
    /\ op \in {"peek", "peek()", "sort", "nsmallest", "nlargest"} => BagOf(data) = BagOf(pre)

\* heapify(items) with an item on a heap of at least three elements.
C22_Witness ==
    /\ op = "heapify"
    /\ arg.items # <<>>
    /\ size(pre) >= 3
    /\ size(data) = size(pre) + Len(arg.items)

\* ---------------------------------------------------------------- properties of Counter (2)
MapKeys(m) == {m[i][1] : i \in DOMAIN m}

RECURSIVE SumCounts(_)
SumCounts(m) == IF m = <<>> THEN 0 ELSE Head(m)[2] + SumCounts(Tail(m))

Occurrences(iterable, k) == Cardinality({i \in DOMAIN iterable : iterable[i] = k})

\* Two Maps hold the same keys with the same count for every key.
SameCounts(m1, m2) ==
    /\ MapKeys(m1) = MapKeys(m2)
    /\ \A k \in MapKeys(m1) : MapGetOr0(m1, k) = MapGetOr0(m2, k)

\* C27 - Counter total invariant: after every sequence of add, subtract (iterable or
\* Counter), delete, update (iterable or Map) and clear, total equals the sum of the stored
\* counts and size the number of stored keys; a key whose count reaches zero or below stays
\* stored until it is deleted.
C27_TotalInvariant ==
    /\ counter.total = SumCounts(counter.data)
    /\ Counter_size(counter) = Cardinality(MapKeys(counter.data))
    /\ op \in {"add", "update", "update(Map)", "subtract", "subtract(Counter)"} =>
          MapKeys(pre.data) \subseteq MapKeys(counter.data)

\* subtract took a key's count from positive to zero or below, and the key is still stored
\* next to another one.
C27_Witness ==
    /\ op = "subtract"
    /\ Counter_size(counter) >= 2
    /\ \E k \in MapKeys(pre.data) :
          /\ MapGetOr0(pre.data, k) >= 1
          /\ MapGetOr0(counter.data, k) <= 0
          /\ MapHas(counter.data, k)
    /\ counter.total = SumCounts(counter.data)

\* C28 - Counter.update adds the counts of the provided items: each occurrence of a key in
\* an iterable adds 1 to its count; after update(m) with a Map m every key k of m has count
\* old(k) + m(k), every other key keeps its count and total grows by the sum of m's values.
C28_UpdateAdds ==
    /\ op = "update" =>
          \A k \in CounterKeys :
             MapGetOr0(counter.data, k) = MapGetOr0(pre.data, k) + Occurrences(arg.items, k)
    /\ op = "update(Map)" =>
          /\ \A k \in CounterKeys :
                MapGetOr0(counter.data, k) = MapGetOr0(pre.data, k) + MapGetOr0(arg.entries, k)
          /\ counter.total = pre.total + SumCounts(arg.entries)

\* C29 - Counter.get(key, defaultValue) returns the stored count of key whenever key is
\* present, whatever that count is (0 included), and defaultValue (0 when omitted) only
\* when key is not present.
C29_Get ==
    op = "get" =>
       LET k == arg.items[1]
       IN  ret = Number(IF MapHas(counter.data, k) THEN MapGetOr0(counter.data, k) ELSE arg.n)

\* C30 - Counter.equals: a.equals(b), b a Counter, a Map or an iterable of keys, is true
\* exactly when a and b hold the same keys with the same count for every key, and so
\* a.equals(b) = b.equals(a).
C30_Equals ==
    /\ op = "equals" =>
          /\ ret = Boolean(SameCounts(counter.data, arg.entries))
          /\ Counter_equals([data |-> arg.entries, total |-> SumCounts(arg.entries)], counter.data)
                = Counter_equals(counter, arg.entries)
    /\ op = "equals(iterable)" =>
          ret = Boolean(SameCounts(counter.data, Counter_update(EmptyCounter, arg.items).data))

\* ---------------------------------------------------------------- properties of Deque
\* The reference list holds what toArray() reads, slot by slot.
Slots(l) == [j \in DOMAIN l |-> <<l[j]>>]

\* Element i of a list, negative i counted from the end, undefined when out of range.
ListGet(l, i) ==
    LET j == IF i < 0 THEN Len(l) + i ELSE i
    IN  IF j >= 0 /\ j < Len(l) THEN SlotValue(l[j + 1]) ELSE Undefined

\* C23 - Deque refines a plain list: whatever the buffer does (growing, wrapping around),
\* push appends, pushLeft prepends, pop removes and returns the last element, popLeft the
\* first, get(i) returns the element at i (negative i from the end, undefined when empty or
\* out of range), clear empties, and after every step size, isEmpty and toArray() are the
\* list's length, emptiness and contents.
C23_RefinesList ==
    LET before == Deque_toArray(pre)
        after == Deque_toArray(deque)
    IN  /\ Deque_size(deque) = Len(after)
        /\ Deque_isEmpty(deque) <=> after = <<>>
        /\ \A j \in DOMAIN after : after[j] # <<>>
        /\ op = "Deque" => after = Slots(arg.items)
        /\ op = "push" => after = Append(before, <<arg.items[1]>>) /\ ret = This
        /\ op = "pushLeft" => after = <<<<arg.items[1]>>>> \o before /\ ret = This
        /\ op = "pop" =>
              IF before = <<>> THEN ret = Undefined /\ after = <<>>
              ELSE /\ ret = SlotValue(before[Len(before)])
                   /\ after = SubSeq(before, 1, Len(before) - 1)
        /\ op = "popLeft" =>
              IF before = <<>> THEN ret = Undefined /\ after = <<>>
              ELSE /\ ret = SlotValue(Head(before))
                   /\ after = Tail(before)
        /\ op = "get" => ret = ListGet(before, arg.n) /\ after = before
        /\ op = "clear" => after = <<>>

\* A push found the buffer full and wrapped around, and the deque grew.
C23_Witness ==
    /\ op = "push"
    /\ pre._front # 0
    /\ pre._length = pre._capacity
    /\ deque._capacity > pre._capacity
    /\ Deque_toArray(deque) = Append(Deque_toArray(pre), <<arg.items[1]>>)

\* ---------------------------------------------------------------- properties of OrderedDict
\* The reference: a list of [key, value] pairs with unique keys.
ListKeys(l) == {l[j][1] : j \in DOMAIN l}

ListValue(l, k) == l[CHOOSE j \in DOMAIN l : l[j][1] = k][2]

ListSet(l, k, value) ==
    IF k \in ListKeys(l)
    THEN [j \in DOMAIN l |-> IF l[j][1] = k THEN <<k, value>> ELSE l[j]]
    ELSE Append(l, <<k, value>>)

ListDelete(l, k) == SelectSeq(l, LAMBDA e : e[1] # k)

RECURSIVE ListUpdate(_, _)
ListUpdate(l, iterable) ==
    IF iterable = <<>> THEN l
    ELSE ListUpdate(ListSet(l, Head(iterable)[1], Head(iterable)[2]), Tail(iterable))

\* C24 - OrderedDict refines an insertion-ordered list of unique-key pairs: after setItem,
\* deleteItem, popItem, update and clear, toArray() (the walk every iterator makes) is what
\* the same operation leaves of the list; setItem on an existing key changes its value and
\* not its place; popItem() removes and returns the last pair, popItem(false) the first,
\* and undefined, changing nothing, when empty; size is the number of listed pairs.
C24_RefinesList ==
    LET before == OrderedDict_toArray(pre)
        after == OrderedDict_toArray(dict)
    IN  /\ \A i, j \in DOMAIN after : after[i][1] = after[j][1] => i = j
        /\ OrderedDict_size(dict) = Len(after)
        /\ op = "OrderedDict" => after = ListUpdate(<<>>, arg.entries)
        /\ op = "setItem" => after = ListSet(before, arg.items[1], arg.items[2])
        /\ op = "deleteItem" => after = ListDelete(before, arg.items[1])
        /\ op = "update" => after = ListUpdate(before, arg.entries)
        /\ op = "clear" => after = <<>>
        /\ op = "toArray" => ret = Array(before) /\ after = before
        /\ op = "popItem" =>
              IF before = <<>> THEN ret = Undefined /\ dict = pre
              ELSE IF arg.n = LastArg(TRUE)
              THEN /\ ret = Pair(before[Len(before)][1], before[Len(before)][2])
                   /\ after = SubSeq(before, 1, Len(before) - 1)
              ELSE /\ ret = Pair(Head(before)[1], Head(before)[2])
                   /\ after = Tail(before)

\* setItem gave a new value to the first of several keys, which stayed first.
C24_Witness ==
    LET before == OrderedDict_toArray(pre)
        after == OrderedDict_toArray(dict)
    IN  /\ op = "setItem"
        /\ Len(before) >= 2
        /\ before[1][1] = arg.items[1]
        /\ before[1][2] # arg.items[2]
        /\ after[1] = <<arg.items[1], arg.items[2]>>
        /\ Len(after) = Len(before)

\* C25 - moveToEnd(key, last) on a present key makes it the last entry (the first when last
\* is false) and keeps the order, keys and values of the others and the size; on an absent
\* key it changes nothing; it returns the dictionary itself.
C25_MoveToEnd ==
    op = "moveToEnd" =>
       LET before == OrderedDict_toArray(pre)
           after == OrderedDict_toArray(dict)
           k == arg.items[1]
       IN  /\ ret = This
           /\ IF k \in ListKeys(before)
              THEN /\ after = IF arg.n = LastArg(TRUE)
                              THEN Append(ListDelete(before, k), <<k, ListValue(before, k)>>)
                              ELSE <<<<k, ListValue(before, k)>>>> \o ListDelete(before, k)
                   /\ OrderedDict_size(dict) = OrderedDict_size(pre)
              ELSE dict = pre

\* moveToEnd(key, false) took the middle one of three entries to the front.
C25_Witness ==
    LET before == OrderedDict_toArray(pre)
        after == OrderedDict_toArray(dict)
    IN  /\ op = "moveToEnd"
        /\ arg.n = LastArg(FALSE)
        /\ Len(before) = 3
        /\ before[2][1] = arg.items[1]
        /\ after = <<before[2], before[1], before[3]>>

\* C26 - deleteItem(key) on a present key removes the pair and returns the pair
\* [key, value].
C26_DeleteReturnsPair ==
    op = "deleteItem" =>
       LET before == OrderedDict_toArray(pre)
           k == arg.items[1]
       IN  k \in ListKeys(before) =>
              /\ OrderedDict_toArray(dict) = ListDelete(before, k)
              /\ ret = Pair(k, ListValue(before, k))

-----------------------------------------------------------------------------
\* properties of OrderedDict (2): the linked list and the key map

\* The keys met from current by following next, at most fuel of them.
RECURSIVE FollowNext(_, _, _)
FollowNext(items, current, fuel) ==
    IF current = Null \/ fuel = 0 \/ current \notin DOMAIN items THEN <<>>
    ELSE <<current>> \o FollowNext(items, items[current].next, fuel - 1)

\* The keys met from current by following prev, at most fuel of them.
RECURSIVE FollowPrev(_, _, _)
FollowPrev(items, current, fuel) ==
    IF current = Null \/ fuel = 0 \/ current \notin DOMAIN items THEN <<>>
    ELSE <<current>> \o FollowPrev(items, items[current].prev, fuel - 1)

Reversed(s) == [j \in 1..Len(s) |-> s[Len(s) + 1 - j]]

\* next from _head visits exactly the entries of _items, each once, and ends at _tail; prev
\* from _tail visits them in the reverse order; _head.prev and _tail.next are null; _head
\* and _tail are null exactly when _items is empty.
Linked(d) ==
    LET n == Cardinality(DOMAIN d._items)
        forward == FollowNext(d._items, d._head, n + 1)
        backward == FollowPrev(d._items, d._tail, n + 1)
    IN  /\ (d._head = Null) <=> (n = 0)
        /\ (d._tail = Null) <=> (n = 0)
        /\ d._head # Null => d._head \in DOMAIN d._items /\ d._items[d._head].prev = Null
        /\ d._tail # Null => d._tail \in DOMAIN d._items /\ d._items[d._tail].next = Null
        /\ Len(forward) = n
        /\ {forward[j] : j \in 1..Len(forward)} = DOMAIN d._items
        /\ n > 0 => forward[n] = d._tail
        /\ backward = Reversed(forward)

Unlinked(entry) == entry.prev = Null /\ entry.next = Null

\* C40 as stated: after every sequence of setItem, deleteItem, moveToEnd, popItem, update and
\* clear calls the list and the key map agree (Linked), and an entry removed from the
\* dictionary has prev = next = null.  clear() drops the entries without touching them, so
\* the entries of a cleared dictionary of two or more keep their links.
C40_StructuralInvariant ==
    /\ Linked(dict)
    /\ \A entry \in detached : Unlinked(entry)

\* C40 amended: the list and the key map agree after every call, and an entry removed by
\* deleteItem or popItem has prev = next = null.
C40_Structure ==
    /\ Linked(dict)
    /\ op \in {"deleteItem", "popItem"} => \A entry \in detached : Unlinked(entry)

\* deleteItem took the middle entry out of a dictionary of three.
C40_Witness ==
    /\ op = "deleteItem"
    /\ Cardinality(DOMAIN pre._items) = 3
    /\ \E entry \in detached :
          /\ pre._items[entry.key].prev # Null
          /\ pre._items[entry.key].next # Null

-----------------------------------------------------------------------------
\* properties of Deque (2): the capacity limit and the ring buffer

\* The items toArray() reads.
Stored(q) == {Deque_toArray(q)[j] : j \in 1..q._length}

\* C36: when push or pushLeft is called on a deque whose size equals its capacity and that
\* capacity is already MAX_CAPACITY, the call throws the RangeError and leaves the deque
\* (contents, size and front) as it was; and no push or pushLeft loses an element that was
\* stored before it.
C36_CapacityLimit ==
    op \in {"push", "pushLeft"} =>
       /\ (pre._length = pre._capacity /\ pre._capacity = MAX_CAPACITY) =>
             ret = RangeError /\ deque = pre
       /\ Stored(pre) \subseteq Stored(deque)

IsPowerOfTwo(n) == \E e \in 0..(MaxCapacityBits + 1) : n = 2^e

\* C39: after the constructor and after every push, pushLeft, pop, popLeft, set, extend,
\* extendLeft and clear call, the capacity is a power of two between MIN_CAPACITY and
\* MAX_CAPACITY, the buffer has exactly capacity slots, 0 <= front < capacity,
\* 0 <= size <= capacity, and the masked index addresses a distinct slot for each logical
\* position below size.
C39_RingBuffer ==
    /\ IsPowerOfTwo(deque._capacity)
    /\ MIN_CAPACITY <= deque._capacity
    /\ deque._capacity <= MAX_CAPACITY
    /\ Len(deque.buffer) = deque._capacity
    /\ 0 <= deque._front /\ deque._front < deque._capacity
    /\ 0 <= deque._length /\ deque._length <= deque._capacity
    /\ \A j, k \in 0..(deque._length - 1) :
          j # k => BitAnd(deque._front + j, deque._capacity - 1)
                     # BitAnd(deque._front + k, deque._capacity - 1)

-----------------------------------------------------------------------------
\* properties of the sift primitives

\* The positions where two arrays of the same length differ.
Changed(before, after) == {j \in 0..(Len(before) - 1) : At(before, j) # At(after, j)}

\* C33 - siftDown contract: when both subtrees below index satisfy the invariant, after
\* _siftDown(array, index, length, comparator) the whole subtree rooted at index satisfies
\* it, the array holds the same multiset, and every position outside one descent path from
\* index (index, one of its children, one of that child's children, ...) is unchanged.
C33_SiftDownContract ==
    op = "_siftDown" =>
       LET index == arg.items[1]
           length == arg.n
           moved == Changed(pre, data)
       IN  /\ SubtreeIsHeap(data, index, length, ElemCmp(ord))
           /\ BagOf(data) = BagOf(pre)
           /\ Len(data) = Len(pre)
           /\ \A j \in moved : j < length /\ IsAncestorOrSelf(index, j)
           /\ \A j, k \in moved : IsAncestorOrSelf(j, k) \/ IsAncestorOrSelf(k, j)

\* The root was sifted down past a child and a grandchild.
C33_Witness ==
    /\ op = "_siftDown"
    /\ arg.items[1] = 0
    /\ Cardinality(Changed(pre, data)) = 3

\* The array before with the element at index moved up to position stop, the ancestors
\* in between each moved one level down.
RECURSIVE MovedUp(_, _, _, _)
MovedUp(before, index, stop, item) ==
    IF index = stop THEN Put(before, index, item)
    ELSE MovedUp(Put(before, index, At(before, (index - 1) \div 2)),
                 (index - 1) \div 2, stop, item)

\* C34 - siftUp contract: when the array satisfies the heap invariant everywhere except
\* possibly between index and its ancestors, after _siftUp(array, index, comparator) the
\* whole array satisfies it and holds the same multiset; the moved element stops at the
\* root or below the first ancestor that does not compare greater than it, an equal
\* ancestor included.
C34_SiftUpContract ==
    op = "_siftUp" =>
       LET index == arg.items[1]
           item == At(pre, index)
           c == ElemCmp(ord)
       IN  /\ IsHeap(data, c)
           /\ BagOf(data) = BagOf(pre)
           /\ \E stop \in 0..index :
                 /\ IsAncestorOrSelf(stop, index)
                 /\ data = MovedUp(pre, index, stop, item)
                 /\ stop = 0 \/ Compare(c, item, At(pre, (stop - 1) \div 2)) >= 0
                 /\ \A passed \in (stop + 1)..index :
                       IsAncestorOrSelf(passed, index) =>
                          Compare(c, item, At(pre, (passed - 1) \div 2)) < 0

\* The last element rose one level and stopped below an ancestor that compares equal.
C34_Witness ==
    /\ op = "_siftUp"
    /\ arg.items[1] = 3
    /\ Len(pre) = 4
    /\ data = MovedUp(pre, 3, 1, At(pre, 3))
    /\ Compare(ElemCmp(ord), At(pre, 3), At(pre, 0)) = 0
    /\ At(pre, 3) # At(pre, 0)

-----------------------------------------------------------------------------
\* properties of the loops

\* What each iteration does to the loop variable: _siftDown's index grows and stays
\* below length, _siftUp's index shrinks and stays at or above 0, _heapify's i goes down
\* by one, and a scan takes one value from the iterator.
LoopAdvances ==
    (ret = Running /\ ret' = Running) =>
       /\ op = "_siftDown" => opIndex' > opIndex /\ opIndex' < arg.n
       /\ op = "_siftUp" => opIndex' < opIndex /\ opIndex' >= 0
       /\ op = "_heapify" => opIndex' = opIndex - 1
       /\ op \in {"_nsmallest", "_nlargest"} => Len(data') = Len(data) - 1

\* What has been done when the loop is left: the loops computed what _siftDown,
\* _siftUp, _heapify, _nsmallest and _nlargest compute, _heapify passed each internal
\* node once, from the last down to the root, and a scan consumed the whole input.
LoopCompleted ==
    (op # "caller" /\ ret # Running) =>
       /\ op = "_siftDown" => data = _siftDown(seed, out[1], arg.n, ElemCmp(ord))
       /\ op = "_siftUp" => data = _siftUp(seed, out[1], ElemCmp(ord))
       /\ op = "_heapify" =>
             /\ data = _heapify(seed, ElemCmp(ord))
             /\ out = [j \in 1..(Len(seed) \div 2) |-> (Len(seed) \div 2) - j]
       /\ op = "_nsmallest" =>
             data = <<>> /\ ScanResult(op, pre, ord) = _nsmallest(arg.n, seed, FALSE, ord)
       /\ op = "_nlargest" =>
             data = <<>> /\ ScanResult(op, pre, ord) = _nlargest(arg.n, seed, FALSE, ord)

\* C35 - termination: every loop entered is left; on the way the _siftDown loop strictly
\* increases index within the length, the _siftUp loop strictly decreases index down to
\* 0 at most, _heapify visits each internal node once, and the scan loops of _nsmallest
\* and _nlargest end when the input is exhausted.
C35_Termination ==
    /\ [][LoopAdvances]_vars
    /\ [](LoopCompleted)
    /\ (ret = Running) ~> (ret # Running)

\* A _siftUp that climbed from the last position to the root has returned.
C35_Witness ==
    /\ op = "_siftUp"
    /\ ret # Running
    /\ out = <<3, 1, 0>>

-----------------------------------------------------------------------------
\* properties of the selection (2): arrays and plain iterators

\* C37 - the selection result does not depend on whether the input's length is known: what
\* nsmallest(n, x) or nlargest(n, x) returned for the sequence it was handed as an array
\* (or as a plain iterator) is what it returns for the same sequence handed the other way,
\* equal elements in the same order; and Counter.mostCommon(size) equals mostCommon().
C37_LengthIndependent ==
    /\ op = "heapq.nsmallest" =>
          ret = heapq_nsmallest(arg.n, pre, arg.iterable # "array").ret
    /\ op = "heapq.nlargest" =>
          ret = heapq_nlargest(arg.n, pre, arg.iterable # "array").ret
    /\ (op = "mostCommon(n)" /\ arg.n = Len(counter.data)) =>
          ret = Counter_mostCommon(counter, FALSE, 0)

-----------------------------------------------------------------------------
\* properties of heapq (2): the facade and the Heap instance

\* C38 - the free functions and the Heap instance agree: on the array the heap held before
\* the call, with the same comparator and item, heapq.heapPush, heapPop, heapReplace and
\* heapPushPop return the element and leave the array that Heap.push, pop, replace and
\* pushPop returned and left, also when the item compares equal to the root and when the
\* array has one element.
C38_FacadeAgrees ==
    /\ op = "push" => heapq_heapPush(pre, arg.items[1]) = data
    /\ op = "pop" => heapq_heapPop(pre) = [data |-> data, ret |-> ret]
    /\ op = "replace" => heapq_heapReplace(pre, arg.items[1]) = [data |-> data, ret |-> ret]
    /\ op = "pushPop" => heapq_heapPushPop(pre, arg.items[1]) = [data |-> data, ret |-> ret]

-----------------------------------------------------------------------------
\* properties of Counter (3): the copy

\* The counts a Counter holds, in key insertion order.
Counts(c) == [j \in DOMAIN c.data |-> c.data[j][2]]

\* C31 - constructing a Counter from another Counter copies it: new Counter(c) holds as
\* many keys as c, with the counts c has for them, and the same total.
C31_CopyConstructor ==
    op = "new Counter(counter)" =>
       /\ Counter_size(ret.val) = Counter_size(counter)
       /\ Counts(ret.val) = Counts(counter)
       /\ ret.val.total = counter.total

-----------------------------------------------------------------------------
\* properties of DefaultDict

\* C32 - pop(key) deletes and returns the value for key if it exists: for a key present in
\* the dictionary, whatever value is stored for it, pop returns that value, and after it
\* has(key) is false and size is one less; for an absent key pop returns undefined, the
\* factory is not called and no entry is added.
C32_Pop ==
    op = "pop" =>
       IF MapHas(pre, arg.n)
       THEN /\ ret = MapGet(pre, arg.n)
            /\ ~MapHas(defaultdict, arg.n)
            /\ DefaultDict_size(defaultdict) = DefaultDict_size(pre) - 1
       ELSE /\ ret = Undefined
            /\ out = <<>>
            /\ defaultdict = pre

\* What pop does keep: a key whose stored value is not undefined is deleted and its value
\* returned, and an absent key leaves the dictionary alone.
C32_PopDefined ==
    (op = "pop" /\ MapGet(pre, arg.n) # Undefined) =>
       /\ ret = MapGet(pre, arg.n)
       /\ ~MapHas(defaultdict, arg.n)
       /\ DefaultDict_size(defaultdict) = DefaultDict_size(pre) - 1

C32_PopAbsent ==
    (op = "pop" /\ ~MapHas(pre, arg.n)) => ret = Undefined /\ out = <<>> /\ defaultdict = pre

====
